---- MODULE Spec2Model ----
(***************************************************************************)
(* Session manager, per-session supervisor and connection registry of the  *)
(* Claude agent orchestrator (src/src/manager, src/src/registry.rs).       *)
(*                                                                         *)
(* Caller tasks run the public operations of AgentManager and              *)
(* AgentRegistry; every await at which another task can observe or change  *)
(* shared state is a step boundary.  One supervisor per session runs the   *)
(* select loop of spawn_message_collector; the child process is the        *)
(* environment that emits frames and may fail.                             *)
(***************************************************************************)
EXTENDS Integers, Sequences, FiniteSets, TLC

\* ------------------------------------------------------------------ bounds
MaxEmit == 2
MaxInflight == 1
MaxNumTurns == 2
MaxMaxTurns == 2
MaxSends == 1
RingEmit == 1002
RingResultEvery == 501
IntBits == 4
MaxLength == 3
MaxNow == 2000
MaxGcNow == 240000
MaxSkew == 60000
TimeBits == 20
MaxLines == 3
MaxCloses == 2
MaxCloseNow == 10000
MaxRequestId == 2
MaxEvents == 2

\* ------------------------------------------------------- program constants
BUFFER_SIZE == 1000
WORKING_THRESHOLD_MS == 2000
COMPLETED_RETENTION_MS == 60000
CLEANUP_INTERVAL_SECS == 60
DEFAULT_MAX_BUFFER_SIZE == 1048576
CLOSE_TIMEOUT_MS == 5000

\* The universe: session ids in the order Uuid::new_v4 hands them out, two
\* connections with two handle numbers each, two concurrent caller tasks.
SessionIds == {1, 2, 3}
OneSession == {1}
TwoSessions == {1, 2}
Conns == {1, 2}
Handles == {0, 1}
Keys == Conns \X Handles
Tasks == {1, 2}
NoSession == 0
NoTask == 0

VARIABLES
    agents,        \* AgentRegistry.agents: (connection_id, agent_id) -> session id
    registry_lock, \* holder of the agents mutex across awaits
    active,        \* key set of AgentManager.active_sessions
    active_lock,   \* holder of the active_sessions mutex across awaits
    completed,     \* AgentManager.completed_sessions: session id -> snapshot
    next_id,       \* next fresh session id (Uuid::new_v4)
    max_turns,     \* AgentSessionInfo.max_turns
    messages,      \* AgentSessionInfo.messages (ring buffer)
    turn_count,    \* AgentSessionInfo.turn_count
    is_complete,   \* AgentSessionInfo.is_complete
    command_q,     \* the session's command channel
    command_open,  \* the supervisor still owns command_rx
    sup,           \* supervisor position: none, select, turn, completing, exited
    sup_turns,     \* num_turns of the Result the supervisor is processing
    stream,        \* client.next_message(): what the reader task has queued
    child,         \* child process: none, up, down
    emitted,       \* frames the child has emitted
    stdin,         \* user frames written to the child's stdin
    reply,         \* one-shot reply channel of each caller task
    pc,            \* position of each caller task
    tsess,         \* session id the task's operation works on
    tconn,         \* connection id of the task's operation
    thandle,       \* handle number of the task's operation
    to_remove,     \* cleanup_connection: keys still to sweep
    count,         \* cleanup_connection: to_remove.len()
    ret,           \* the return of the operation that ended with the latest step
    attempted,     \* history: terminate_session calls (and failures) of the task's sweep, per session
    sweep_start,   \* history: registry entries of the connection at sweep start
    ever_reg,      \* history: session ids ever registered under a connection
    dropped,       \* connections whose drop was reported
    term_ok,       \* history: terminate_session calls that returned Ok, per session
    observed,      \* history: turn_count returned by the last read of a session
    page,          \* the response of the last get_output call
    now,           \* the monotonic clock (Instant::now), in ms
    utc,           \* the wall clock (Utc::now), in ms
    last_message_at, \* AgentSessionInfo.last_message_at
    gc_wake,       \* the instant at which the cleanup task's sleep ends
    wire,          \* read_messages(): what the transport reader has queued
    json_buffer,   \* the transport reader's accumulator, in bytes
    transport_done, \* sessions whose transport reader has left its loop
    reader_done,   \* sessions whose message_reader_task has returned
    session_ids,   \* shutdown: the ids of the snapshot still to terminate
    shutting,      \* the tasks that are inside shutdown
    shut_snapshot, \* history: the ids shutdown collected
    shut_failed,   \* history: terminate_session failures shutdown has logged
    shut_done,     \* history: a shutdown has returned
    cleanup_handle, \* AgentManager.cleanup_handle: the cleanup task, running or aborted
    tr_process,    \* SubprocessTransport.process: none, held, reader (moved into the reader task), taken
    tr_stdin,      \* SubprocessTransport.stdin is Some
    tr_reader,     \* SubprocessTransport.reader_task: none, running, aborted
    tr_ready,      \* SubprocessTransport.ready
    tr_pc,         \* the transport's owner: idle, wait (inside close), dropped
    tr_closes,     \* history: calls of close that have returned
    tr_deadline,   \* close: the instant at which the timeout of the wait fires
    proc,          \* the child process of the transport: none, running, exited, killed
    parent_env,    \* env::vars(): the environment of the SDK's own process
    options_env,   \* ClaudeAgentOptions.env: the user's overrides
    options_cwd,   \* ClaudeAgentOptions.cwd is Some
    child_env,     \* the environment the child was spawned with
    next_request_id, \* ProtocolHandler.next_request_id, per handler
    initialized,   \* ProtocolHandler.initialized, per handler
    pending_requests, \* ProtocolHandler.pending_requests: the ids with a waiter, per handler
    created,       \* the control requests created on a handler and not yet sent, by id
    response_rx,   \* the receiver of each waiter: none, waiting, success, error, dropped
    issued,        \* history: the request ids next_id has returned
    hook_chan,     \* ProtocolHandler.hook_tx: none, open, closed (receiver dropped)
    permission_chan, \* ProtocolHandler.permission_tx: none, open, closed
    hook_q,        \* the hook channel: the events queued for the hook worker
    permission_q,  \* the permission channel: the requests queued for the worker
    events_in,     \* history: the callback frames forwarded to a channel, per handler
    hook_worker,   \* hook_handler_task: none, recv, invoke, respond, exited
    hook_cur,      \* the hook id the hook worker is processing
    permission_worker, \* permission_handler_task: none, recv, invoke, respond, exited
    permission_cur, \* the request id the permission worker is processing
    control_q,     \* the control channel: requests queued for the writer task
    cb_errors,     \* history: the callbacks that returned an error, per handler
    transport_lock, \* holder of the client's transport mutex: none, caller, writer
    wr_pc,         \* control_writer_task: recv, lock, write, flush, exited
    wr_cur,        \* the id of the request the writer task is writing
    snd_pc,        \* ClaudeSDKClient::send_message: idle, lock, write, flush
    snd_count,     \* the direct send_message calls so far
    child_stdin,   \* what has reached the child's stdin, as parts of frames
    stdin_broken,  \* a write to the child's stdin has failed
    messages_lock, \* holder of a session's messages mutex across awaits
    rd,            \* what a reading task has read so far
    appended,      \* history: Result records pushed to the buffer, per session
    stored         \* history: stores into turn_count, per session

vars == << agents, registry_lock, active, active_lock, completed, next_id,
           max_turns, messages, turn_count, is_complete, command_q,
           command_open, sup, sup_turns, stream, child, emitted, stdin, reply,
           pc, tsess, tconn, thandle, to_remove, count, ret, attempted,
           sweep_start, ever_reg, dropped, term_ok, observed, page, now, utc,
           last_message_at, gc_wake, wire, json_buffer,
           transport_done, reader_done, session_ids, shutting,
           shut_snapshot, shut_failed, shut_done, cleanup_handle,
           tr_process, tr_stdin, tr_reader, tr_ready, tr_pc, tr_closes,
           tr_deadline, proc, parent_env, options_env, options_cwd,
           child_env, next_request_id, initialized, pending_requests,
           created, response_rx, issued, hook_chan, permission_chan, hook_q,
           permission_q, events_in, hook_worker, hook_cur, permission_worker,
           permission_cur, control_q, cb_errors, transport_lock, wr_pc,
           wr_cur, snd_pc, snd_count, child_stdin, stdin_broken,
           messages_lock, rd, appended, stored >>

readVars == << observed, page >>
clockVars == << now, utc, gc_wake >>
wireVars == << wire, json_buffer, transport_done, reader_done >>
shutVars == << session_ids, shutting, shut_snapshot, shut_failed, shut_done,
              cleanup_handle >>
closeVars == << tr_process, tr_stdin, tr_reader, tr_ready, tr_pc, tr_closes,
               tr_deadline, proc >>
envVars == << parent_env, options_env, options_cwd, child_env >>
protoVars == << next_request_id, initialized, pending_requests, created,
               response_rx, issued >>
chanVars == << hook_chan, permission_chan, hook_q, permission_q, events_in >>
workerVars == << hook_worker, hook_cur, permission_worker, permission_cur,
                control_q, cb_errors >>
writeVars == << transport_lock, wr_pc, wr_cur, snd_pc, snd_count, child_stdin,
               stdin_broken >>
snapVars == << messages_lock, rd, appended, stored >>
auxVars == << closeVars, envVars, protoVars, chanVars, workerVars, writeVars,
             snapVars >>
extVars == << readVars, clockVars, last_message_at, wireVars, shutVars, auxVars >>
registryVars == << agents, registry_lock, ever_reg, dropped >>
poolVars == << active, active_lock, completed, term_ok >>
sessionVars == << max_turns, messages, turn_count, is_complete >>
channelVars == << command_q, command_open, reply >>
supVars == << sup, sup_turns >>
childVars == << stream, child, emitted, stdin >>
sweepVars == << to_remove, count, attempted, sweep_start >>
taskVars == << pc, tsess, tconn, thandle >>

\* The manager, its sessions, the registry and the clocks: everything but the
\* event of the step and the components that stand on their own.
coreVars == << registryVars, poolVars, sessionVars, channelVars, supVars,
               childVars, sweepVars, taskVars, next_id, readVars, clockVars,
               last_message_at, wireVars, shutVars >>

\* What a step of the transport's lifecycle after connect leaves alone.
exceptClose == << coreVars, envVars, protoVars, chanVars, workerVars, writeVars,
    snapVars >>
\* What a connect of the transport leaves alone.
exceptTransport == << coreVars, protoVars, chanVars, workerVars, writeVars,
    snapVars >>
\* What a step that prepares the environment of a connect leaves alone.
exceptEnv == << coreVars, closeVars, protoVars, chanVars, workerVars, writeVars,
    snapVars >>
\* What a step of a protocol handler leaves alone.
exceptProto == << coreVars, closeVars, envVars, workerVars, writeVars,
    snapVars >>
\* What a step of a client's background tasks leaves alone.
exceptClient == << coreVars, closeVars, envVars, writeVars,
    snapVars >>
\* What a write to the child leaves alone.
exceptWrite == << coreVars, closeVars, envVars, chanVars,
    snapVars >>

\* The ProtocolHandler instances of the process (one per client).
Handlers == {1, 2}
\* The counter values next_id hands out, and one that it never did.
RequestNumbers == 1..(MaxRequestId + 1)

\* An environment without variables.
NoEnv == [k \in {} |-> ""]

NoRet == [task |-> NoTask, op |-> "none", sess |-> NoSession, conn |-> 0, res |-> "none", n |-> 0]

NoAttempts == [s \in SessionIds |-> [calls |-> 0, failed |-> 0]]

\* No get_output call has returned yet.
NoPage == [outcome |-> "none"]

\* A step at which no operation returns.
Silent == ret' = NoRet

\* A read that has read nothing yet: turn is the turn_count it read, turn_at
\* the number of stores before that read, snap_at the number of Result records
\* pushed before it locked the buffer (-1: not yet), todo the sessions a
\* list_sessions still has to visit.
NoRead == [turn |-> 0, turn_at |-> -1, snap_at |-> -1, todo |-> {}]

Init ==
    /\ agents = [k \in Keys |-> NoSession]
    /\ registry_lock = NoTask
    /\ active = {}
    /\ active_lock = NoTask
    /\ completed = << >>
    /\ next_id = 1
    /\ max_turns = [s \in SessionIds |-> 0]
    /\ messages = [s \in SessionIds |-> << >>]
    /\ turn_count = [s \in SessionIds |-> 0]
    /\ is_complete = [s \in SessionIds |-> FALSE]
    /\ command_q = [s \in SessionIds |-> << >>]
    /\ command_open = [s \in SessionIds |-> FALSE]
    /\ sup = [s \in SessionIds |-> "none"]
    /\ sup_turns = [s \in SessionIds |-> 0]
    /\ stream = [s \in SessionIds |-> << >>]
    /\ child = [s \in SessionIds |-> "none"]
    /\ emitted = [s \in SessionIds |-> 0]
    /\ stdin = [s \in SessionIds |-> 0]
    /\ reply = [t \in Tasks |-> "none"]
    /\ pc = [t \in Tasks |-> "idle"]
    /\ tsess = [t \in Tasks |-> NoSession]
    /\ tconn = [t \in Tasks |-> 0]
    /\ thandle = [t \in Tasks |-> 0]
    /\ to_remove = [t \in Tasks |-> {}]
    /\ count = [t \in Tasks |-> 0]
    /\ ret = NoRet
    /\ attempted = [t \in Tasks |-> NoAttempts]
    /\ sweep_start = [t \in Tasks |-> {}]
    /\ ever_reg = [c \in Conns |-> {}]
    /\ dropped = {}
    /\ term_ok = [s \in SessionIds |-> 0]
    /\ observed = [s \in SessionIds |-> -1]
    /\ page = NoPage
    /\ now = 0
    /\ utc = 0
    /\ last_message_at = [s \in SessionIds |-> 0]
    /\ gc_wake = CLEANUP_INTERVAL_SECS * 1000
    /\ wire = [s \in SessionIds |-> << >>]
    /\ json_buffer = [s \in SessionIds |-> 0]
    /\ transport_done = {}
    /\ reader_done = {}
    /\ session_ids = [t \in Tasks |-> {}]
    /\ shutting = {}
    /\ shut_snapshot = [t \in Tasks |-> {}]
    /\ shut_failed = [t \in Tasks |-> 0]
    /\ shut_done = FALSE
    /\ cleanup_handle = "running"
    /\ tr_process = "none"
    /\ tr_stdin = FALSE
    /\ tr_reader = "none"
    /\ tr_ready = FALSE
    /\ tr_pc = "idle"
    /\ tr_closes = 0
    /\ tr_deadline = 0
    /\ proc = "none"
    /\ parent_env = NoEnv
    /\ options_env = NoEnv
    /\ options_cwd = FALSE
    /\ child_env = NoEnv
    /\ next_request_id = [h \in Handlers |-> 1]
    /\ initialized = [h \in Handlers |-> FALSE]
    /\ pending_requests = [h \in Handlers |-> {}]
    /\ created = [h \in Handlers |-> {}]
    /\ response_rx = [h \in Handlers |-> [i \in RequestNumbers |-> "none"]]
    /\ issued = {}
    /\ hook_chan = [h \in Handlers |-> "none"]
    /\ permission_chan = [h \in Handlers |-> "none"]
    /\ hook_q = [h \in Handlers |-> << >>]
    /\ permission_q = [h \in Handlers |-> << >>]
    /\ events_in = [h \in Handlers |-> 0]
    /\ hook_worker = [h \in Handlers |-> "none"]
    /\ hook_cur = [h \in Handlers |-> 0]
    /\ permission_worker = [h \in Handlers |-> "none"]
    /\ permission_cur = [h \in Handlers |-> 0]
    /\ control_q = [h \in Handlers |-> << >>]
    /\ cb_errors = [h \in Handlers |-> 0]
    /\ transport_lock = "none"
    /\ wr_pc = "recv"
    /\ wr_cur = 0
    /\ snd_pc = "idle"
    /\ snd_count = 0
    /\ child_stdin = << >>
    /\ messages_lock = [s \in SessionIds |-> NoTask]
    /\ rd = [t \in Tasks |-> NoRead]
    /\ appended = [s \in SessionIds |-> 0]
    /\ stored = [s \in SessionIds |-> 0]
    /\ stdin_broken = FALSE

Spawned == 1..(next_id - 1)

\* ------------------------------------------------------------ child frames
AssistantFrame(k) == [type |-> "assistant", num_turns |-> 0, seq |-> k]
ResultFrame(k, n) == [type |-> "result", num_turns |-> n, seq |-> k]
NoFrame == [type |-> "none", num_turns |-> 0, seq |-> 0]

\* What the child may emit as its k-th frame.
Frames(k) == {AssistantFrame(k)} \cup {ResultFrame(k, n) : n \in 0..MaxNumTurns}

\* The k-th frame of the long-running child: a Result closes every
\* RingResultEvery-th frame, counting the turns so far.
ScriptFrame(k) ==
    IF k % RingResultEvery = 0 THEN ResultFrame(k, k \div RingResultEvery)
    ELSE AssistantFrame(k)

StreamOk(f) == [ok |-> TRUE, msg |-> f]
StreamErr == [ok |-> FALSE, msg |-> NoFrame]

\* helpers.rs serialize_message: the tag, the turn (num_turns of a Result, 0
\* otherwise) and the whole message as content.
serialize_message(msg) ==
    [message_type |-> msg.type,
     turn |-> IF msg.type = "result" THEN msg.num_turns ELSE 0,
     content |-> msg]

\* A push that never evicts.
RingPushNoEvict(buf, m) == Append(buf, m)

\* A push that makes room at the wrong end (pop_back instead of pop_front).
RingPushPopBack(buf, m) ==
    IF Len(buf) = BUFFER_SIZE
    THEN Append(SubSeq(buf, 1, Len(buf) - 1), m) ELSE Append(buf, m)

\* background.rs: push to the circular buffer, dropping the oldest when full.
RingPush(buf, m) ==
    IF Len(buf) = BUFFER_SIZE THEN Append(Tail(buf), m) ELSE Append(buf, m)

\* The completion test of a supervisor that stops at the first Result.
CompleteOnAnyResult(n, m) == n >= 0

\* background.rs: the completion test on a Result's num_turns.
ReachedMaxTurns(n, m) == n >= m

\* A channel whose queued commands outlive the receiver: their one-shot senders
\* are never dropped.
KeepPending(q, rep) == rep

\* The one-shot senders queued in q are dropped with the receiver.
DropPending(q, rep) ==
    [t \in Tasks |->
        IF \E i \in 1..Len(q) : q[i].from = t THEN "dropped" ELSE rep[t]]

\* ---------------------------------------------------------------- child
ChildEmit(s) ==
    /\ Silent
    /\ child[s] = "up"
    /\ emitted[s] < MaxEmit
    /\ Len(stream[s]) < MaxInflight
    /\ \E f \in Frames(emitted[s] + 1) :
          stream' = [stream EXCEPT ![s] = Append(@, StreamOk(f))]
    /\ emitted' = [emitted EXCEPT ![s] = @ + 1]
    /\ UNCHANGED << registryVars, poolVars, sessionVars, channelVars, supVars,
                    child, stdin, sweepVars, taskVars, next_id, extVars >>

\* A child that only emits assistant frames.
ChildAssistant(s) ==
    /\ Silent
    /\ child[s] = "up"
    /\ emitted[s] < MaxEmit
    /\ Len(stream[s]) < MaxInflight
    /\ stream' = [stream EXCEPT ![s] =
                     Append(@, StreamOk(AssistantFrame(emitted[s] + 1)))]
    /\ emitted' = [emitted EXCEPT ![s] = @ + 1]
    /\ UNCHANGED << registryVars, poolVars, sessionVars, channelVars, supVars,
                    child, stdin, sweepVars, taskVars, next_id, extVars >>

ChildScript(s) ==
    /\ Silent
    /\ child[s] = "up"
    /\ emitted[s] < RingEmit
    /\ Len(stream[s]) < MaxInflight
    /\ stream' = [stream EXCEPT ![s] = Append(@, StreamOk(ScriptFrame(emitted[s] + 1)))]
    /\ emitted' = [emitted EXCEPT ![s] = @ + 1]
    /\ UNCHANGED << registryVars, poolVars, sessionVars, channelVars, supVars,
                    child, stdin, sweepVars, taskVars, next_id, extVars >>

\* The child dies: the reader task reports an error on the message stream.
ChildFail(s) ==
    /\ Silent
    /\ child[s] = "up"
    /\ child' = [child EXCEPT ![s] = "down"]
    /\ stream' = [stream EXCEPT ![s] = Append(@, StreamErr)]
    /\ UNCHANGED << registryVars, poolVars, sessionVars, channelVars, supVars,
                    emitted, stdin, sweepVars, taskVars, next_id, extVars >>


\* ------------------------------------------- the read path of the client
\* What read_messages() yields: a JSON value or an error.
WireOk(v) == [ok |-> TRUE, val |-> v]
WireErr(kind) == [ok |-> FALSE, val |-> [NoFrame EXCEPT !.type = kind]]

\* An error on the client's message stream, with its kind.
StreamErrOf(kind) == [ok |-> FALSE, msg |-> [NoFrame EXCEPT !.type = kind]]

\* A JSON value that is no Message.
BadValue(k) == [type |-> "unknown", num_turns |-> 0, seq |-> k]

\* parser.rs parse_message: serde accepts the value as a Message.
parse_ok(v) == v.type \in {"assistant", "result"}

\* The lines the child may write as its k-th: a fragment of a frame, or the
\* line that closes one, carrying a Message or some other JSON value.  Frames
\* are cut at line ends only where the accumulator stays below its limit.
Lines(k) ==
    {[bytes |-> 1, closes |-> FALSE, val |-> NoFrame]}
    \cup {[bytes |-> b, closes |-> TRUE, val |-> v] :
            b \in {1, DEFAULT_MAX_BUFFER_SIZE, DEFAULT_MAX_BUFFER_SIZE + 1},
            v \in {AssistantFrame(k), BadValue(k)}}

\* reader.rs 58: json_buffer.len() > max_buffer_size
Overflows(n) == n > DEFAULT_MAX_BUFFER_SIZE

\* reader.rs 49-81: one line read from stdout: accumulate; over the limit,
\* report a decode error and clear; a complete JSON text is sent and cleared.
ChildLine(s) ==
    /\ Silent
    /\ child[s] = "up"
    /\ s \notin transport_done
    /\ emitted[s] < MaxLines
    /\ Len(wire[s]) < MaxInflight
    /\ \E line \in Lines(emitted[s] + 1) :
          LET n == json_buffer[s] + line.bytes IN
          IF Overflows(n)
          THEN /\ wire' = [wire EXCEPT ![s] = Append(@, WireErr("overflow"))]
               /\ json_buffer' = [json_buffer EXCEPT ![s] = 0]
          ELSE IF line.closes
          THEN /\ wire' = [wire EXCEPT ![s] = Append(@, WireOk(line.val))]
               /\ json_buffer' = [json_buffer EXCEPT ![s] = 0]
          ELSE /\ json_buffer' = [json_buffer EXCEPT ![s] = n]
               /\ UNCHANGED wire
    /\ emitted' = [emitted EXCEPT ![s] = @ + 1]
    /\ UNCHANGED << transport_done, reader_done >>
    /\ UNCHANGED << registryVars, poolVars, sessionVars, channelVars, supVars,
                    stream, child, stdin, sweepVars, taskVars, next_id,
                    readVars, clockVars, last_message_at, shutVars, auxVars >>

\* reader.rs 82-89: read_line fails or times out: report and leave the loop.
TransportError(s, kind) ==
    /\ Silent
    /\ child[s] = "up"
    /\ s \notin transport_done
    /\ wire' = [wire EXCEPT ![s] = Append(@, WireErr(kind))]
    /\ transport_done' = transport_done \cup {s}
    /\ UNCHANGED << json_buffer, reader_done >>
    /\ UNCHANGED << registryVars, poolVars, sessionVars, channelVars, supVars,
                    childVars, sweepVars, taskVars, next_id, readVars,
                    clockVars, last_message_at, shutVars, auxVars >>

\* reader.rs 48, 93-113: the child exits: EOF ends the loop if it still runs,
\* and a nonzero exit code is reported.
ChildExit(s, code) ==
    /\ Silent
    /\ child[s] = "up"
    /\ child' = [child EXCEPT ![s] = "down"]
    /\ transport_done' = transport_done \cup {s}
    /\ wire' = [wire EXCEPT ![s] =
                  IF code # 0 THEN Append(@, WireErr("process")) ELSE @]
    /\ UNCHANGED << json_buffer, reader_done >>
    /\ UNCHANGED << registryVars, poolVars, sessionVars, channelVars, supVars,
                    stream, emitted, stdin, sweepVars, taskVars, next_id,
                    readVars, clockVars, last_message_at, shutVars, auxVars >>

\* tasks.rs 33-80: message_reader_task takes the next item: a Message goes to
\* the message stream (the task ends if the client is gone), a value that
\* does not parse goes there as an error, an error of the transport goes
\* there as an error and ends the task.
MessageReader(s) ==
    /\ Silent
    /\ s \in Spawned
    /\ s \notin reader_done
    /\ wire[s] # << >>
    /\ LET item == Head(wire[s])
           gone == sup[s] = "exited"
       IN  /\ stream' = [stream EXCEPT ![s] =
                  IF gone THEN @
                  ELSE IF ~item.ok THEN Append(@, StreamErrOf(item.val.type))
                  ELSE IF parse_ok(item.val) THEN Append(@, StreamOk(item.val))
                  ELSE Append(@, StreamErrOf("parse"))]
           /\ reader_done' =
                  IF ~item.ok \/ (gone /\ parse_ok(item.val))
                  THEN reader_done \cup {s} ELSE reader_done
    /\ wire' = [wire EXCEPT ![s] = Tail(@)]
    /\ UNCHANGED << json_buffer, transport_done >>
    /\ UNCHANGED << registryVars, poolVars, sessionVars, channelVars, supVars,
                    child, emitted, stdin, sweepVars, taskVars, next_id,
                    readVars, clockVars, last_message_at, shutVars, auxVars >>

\* tasks.rs 33, 81: the transport's channel is closed and drained: recv yields
\* None, message_reader_task returns and message_tx is dropped, so that
\* next_message yields None once the stream is drained.
ReaderEof(s) ==
    /\ Silent
    /\ s \in Spawned
    /\ s \in transport_done
    /\ s \notin reader_done
    /\ wire[s] = << >>
    /\ reader_done' = reader_done \cup {s}
    /\ UNCHANGED << wire, json_buffer, transport_done >>
    /\ UNCHANGED << registryVars, poolVars, sessionVars, channelVars, supVars,
                    childVars, sweepVars, taskVars, next_id, readVars,
                    clockVars, last_message_at, shutVars, auxVars >>

\* A supervisor that drops an error of the stream and goes on.
SupSkipError(s) ==
    /\ Silent
    /\ sup[s] = "select"
    /\ stream[s] # << >>
    /\ ~Head(stream[s]).ok
    /\ stream' = [stream EXCEPT ![s] = Tail(@)]
    /\ UNCHANGED << registryVars, poolVars, sessionVars, channelVars, supVars,
                    child, emitted, stdin, sweepVars, taskVars, next_id, extVars >>

\* ------------------------------------------------------------ supervisor
\* select!: SessionCommand::SendMessage
SupSendMessage(s) ==
    /\ Silent
    /\ sup[s] = "select"
    /\ command_q[s] # << >>
    /\ Head(command_q[s]).kind = "SendMessage"
    /\ LET from == Head(command_q[s]).from IN
        IF child[s] = "up"
        THEN /\ stdin' = [stdin EXCEPT ![s] = @ + 1]
             /\ reply' = [reply EXCEPT ![from] = "ok"]
             /\ last_message_at' = [last_message_at EXCEPT ![s] = now]
        ELSE /\ stdin' = stdin
             /\ reply' = [reply EXCEPT ![from] = "err"]
             /\ last_message_at' = last_message_at
    /\ command_q' = [command_q EXCEPT ![s] = Tail(@)]
    /\ UNCHANGED << registryVars, poolVars, sessionVars, command_open, supVars,
                    stream, child, emitted, sweepVars, taskVars, next_id,
                    readVars, clockVars, wireVars, shutVars, auxVars >>

\* Whether the supervisor leaves its loop after a Shutdown command.
ShutdownBreaks == TRUE

\* select!: SessionCommand::Shutdown: close the client, acknowledge, break.
SupShutdown(s) ==
    /\ Silent
    /\ sup[s] = "select"
    /\ command_q[s] # << >>
    /\ Head(command_q[s]).kind = "Shutdown"
    /\ LET from == Head(command_q[s]).from IN
        IF ShutdownBreaks
        THEN /\ reply' = DropPending(Tail(command_q[s]), [reply EXCEPT ![from] = "ok"])
             /\ command_q' = [command_q EXCEPT ![s] = << >>]
             /\ command_open' = [command_open EXCEPT ![s] = FALSE]
             /\ sup' = [sup EXCEPT ![s] = "exited"]
        ELSE /\ reply' = [reply EXCEPT ![from] = "ok"]
             /\ command_q' = [command_q EXCEPT ![s] = Tail(@)]
             /\ UNCHANGED << command_open, sup >>
    /\ child' = [child EXCEPT ![s] = "down"]
    /\ UNCHANGED << registryVars, poolVars, sessionVars, sup_turns, stream,
                    emitted, stdin, sweepVars, taskVars, next_id, extVars >>

\* A supervisor that pushes without taking the messages mutex.
MessagesUnguarded(s) == TRUE

\* background.rs: ctx.messages.lock().await, as it stands when it is granted.
MessagesFree(s) == messages_lock[s] = NoTask

\* select!: Ok(msg): serialize and push; a Result goes on to the turn count.
SupMessage(s) ==
    /\ Silent
    /\ sup[s] = "select"
    /\ stream[s] # << >>
    /\ Head(stream[s]).ok
    /\ MessagesFree(s)
    /\ LET msg == Head(stream[s]).msg IN
        /\ messages' = [messages EXCEPT ![s] = RingPush(@, serialize_message(msg))]
        /\ IF msg.type = "result"
           THEN /\ sup' = [sup EXCEPT ![s] = "turn"]
                /\ sup_turns' = [sup_turns EXCEPT ![s] = msg.num_turns]
                /\ appended' = [appended EXCEPT ![s] = @ + 1]
           ELSE UNCHANGED << supVars, appended >>
    /\ stream' = [stream EXCEPT ![s] = Tail(@)]
    /\ last_message_at' = [last_message_at EXCEPT ![s] = now]
    /\ UNCHANGED << registryVars, poolVars, max_turns, turn_count, is_complete,
                    channelVars, child, emitted, stdin, sweepVars, taskVars,
                    next_id, readVars, clockVars, wireVars, shutVars,
                    closeVars, envVars, protoVars, chanVars, workerVars,
                    writeVars, messages_lock, rd, stored >>

\* A supervisor that stores the turn count under the active pool's mutex.
TurnCountUnderActive(s) == active_lock = NoTask

\* background.rs 91: ctx.turn_count.lock().await: every guard of turn_count is
\* a temporary of one statement, so the mutex is free whenever it is asked for.
TurnCountFree(s) == TRUE

\* Message::Result: *ctx.turn_count.lock().await = num_turns
SupTurnCount(s) ==
    /\ Silent
    /\ sup[s] = "turn"
    /\ TurnCountFree(s)
    /\ turn_count' = [turn_count EXCEPT ![s] = sup_turns[s]]
    /\ stored' = [stored EXCEPT ![s] = @ + 1]
    /\ sup' = [sup EXCEPT ![s] =
                  IF ReachedMaxTurns(sup_turns[s], max_turns[s])
                  THEN "completing" ELSE "select"]
    /\ UNCHANGED << registryVars, poolVars, max_turns, messages, is_complete,
                    channelVars, sup_turns, childVars, sweepVars, taskVars,
                    next_id, readVars, clockVars, last_message_at, wireVars,
                    shutVars, closeVars, envVars, protoVars, chanVars,
                    workerVars, writeVars, messages_lock, rd, appended >>

\* A supervisor that marks the session complete and stays in its loop.
SupKeepsRunning == "select"

\* background.rs 94-96, 102-103: is_complete is set and the loop is left.
SupAfterComplete == "exited"

\* num_turns >= max_turns: mark complete and break; command_rx is dropped.
SupMaxTurns(s) ==
    /\ Silent
    /\ sup[s] = "completing"
    /\ is_complete' = [is_complete EXCEPT ![s] = TRUE]
    /\ sup' = [sup EXCEPT ![s] = SupAfterComplete]
    /\ reply' = DropPending(command_q[s], reply)
    /\ command_q' = [command_q EXCEPT ![s] = << >>]
    /\ command_open' = [command_open EXCEPT ![s] = FALSE]
    /\ UNCHANGED << registryVars, poolVars, max_turns, messages, turn_count,
                    sup_turns, childVars, sweepVars, taskVars, next_id, extVars >>

\* select!: Err(e): mark complete and break; command_rx is dropped.
SupStreamError(s) ==
    /\ Silent
    /\ sup[s] = "select"
    /\ stream[s] # << >>
    /\ ~Head(stream[s]).ok
    /\ is_complete' = [is_complete EXCEPT ![s] = TRUE]
    /\ sup' = [sup EXCEPT ![s] = SupAfterComplete]
    /\ reply' = DropPending(command_q[s], reply)
    /\ command_q' = [command_q EXCEPT ![s] = << >>]
    /\ command_open' = [command_open EXCEPT ![s] = FALSE]
    /\ stream' = [stream EXCEPT ![s] = Tail(@)]
    /\ UNCHANGED << registryVars, poolVars, max_turns, messages, turn_count,
                    sup_turns, child, emitted, stdin, sweepVars, taskVars,
                    next_id, extVars >>

Supervisor(s) ==
    \/ SupSendMessage(s)
    \/ SupShutdown(s)
    \/ SupMessage(s)
    \/ SupTurnCount(s)
    \/ SupMaxTurns(s)
    \/ SupStreamError(s)

\* ---------------------------------------------------------- caller tasks
\* The event of a step: the operation that returned, with its result and its
\* count (cleanup_connection: the returned count; send_message: the commands
\* the call had posted), or the command send_message has just posted, with
\* the turn count it saw.
Return(t, o, s, c, r, n) ==
    ret' = [task |-> t, op |-> o, sess |-> s, conn |-> c, res |-> r, n |-> n]

\* spawn.rs spawn_session: a fresh id, the client with its child, the initial
\* prompt written, the session in the active pool, the supervisor started.
SpawnBody(t, m, ids) ==
    /\ pc[t] = "idle"
    /\ active_lock = NoTask
    /\ next_id \in ids
    /\ LET s == next_id IN
        /\ next_id' = next_id + 1
        /\ active' = active \cup {s}
        /\ max_turns' = [max_turns EXCEPT ![s] = m]
        /\ command_open' = [command_open EXCEPT ![s] = TRUE]
        /\ sup' = [sup EXCEPT ![s] = "select"]
        /\ child' = [child EXCEPT ![s] = "up"]
        /\ stdin' = [stdin EXCEPT ![s] = 1]
        /\ last_message_at' = [last_message_at EXCEPT ![s] = now]
    /\ UNCHANGED << registryVars, active_lock, completed, term_ok, messages, turn_count,
                    is_complete, command_q, reply, sup_turns, stream, emitted,
                    sweepVars, readVars, clockVars, wireVars, shutVars, auxVars >>

\* A caller's spawn_session(request) with request.max_turns = m.
SpawnSession(t, m, ids) ==
    /\ SpawnBody(t, m, ids)
    /\ Return(t, "spawn", next_id, 0, "Ok", 0)
    /\ UNCHANGED taskVars

\* SPAWN on connection c: spawn_session, then register_session under (c, h).
SpawnAgent(t, c, h, m, ids) ==
    /\ c \notin dropped
    /\ SpawnBody(t, m, ids)
    /\ tsess' = [tsess EXCEPT ![t] = next_id]
    /\ tconn' = [tconn EXCEPT ![t] = c]
    /\ thandle' = [thandle EXCEPT ![t] = h]
    /\ pc' = [pc EXCEPT ![t] = "register"]
    /\ Silent

\* registry.rs register_session: HashMap::insert under (connection_id, agent_id).
RegisterSession(t) ==
    /\ pc[t] = "register"
    /\ registry_lock = NoTask
    /\ agents' = [agents EXCEPT ![<< tconn[t], thandle[t] >>] = tsess[t]]
    /\ ever_reg' = [ever_reg EXCEPT ![tconn[t]] = @ \cup {tsess[t]}]
    /\ pc' = [pc EXCEPT ![t] = "idle"]
    /\ tsess' = [tsess EXCEPT ![t] = NoSession]
    /\ tconn' = [tconn EXCEPT ![t] = 0]
    /\ thandle' = [thandle EXCEPT ![t] = 0]
    /\ Return(t, "register", tsess[t], tconn[t], "Ok", thandle[t])
    /\ UNCHANGED << registry_lock, dropped, poolVars, sessionVars, channelVars,
                    supVars, childVars, sweepVars, next_id, extVars >>

\* A send_message that only looks at the completion flag.
SendRejectedCompleteOnly(s) == is_complete[s]

\* interaction.rs send_message: the two rejections on the session's state.
SendRejected(s) == is_complete[s] \/ turn_count[s] >= max_turns[s]

\* interaction.rs send_message, up to the posted command.  The active_sessions
\* guard stays held while the caller awaits the one-shot reply.
SendMessage(t, s) ==
    /\ pc[t] = "idle"
    /\ active_lock = NoTask
    /\ s \in Spawned
    /\ stdin[s] <= MaxSends
    /\ IF s \notin active
       THEN /\ Return(t, "send", s, 0, "SessionNotFound", 0)
            /\ UNCHANGED << pc, tsess, active_lock, command_q >>
       ELSE IF SendRejected(s) \/ ~command_open[s]
       THEN /\ Return(t, "send", s, 0, "SessionComplete", 0)
            /\ UNCHANGED << pc, tsess, active_lock, command_q >>
       ELSE /\ command_q' = [command_q EXCEPT ![s] =
                                Append(@, [kind |-> "SendMessage", from |-> t])]
            /\ active_lock' = t
            /\ pc' = [pc EXCEPT ![t] = "send_wait"]
            /\ tsess' = [tsess EXCEPT ![t] = s]
            /\ Return(t, "send", s, 0, "Posted", turn_count[s])
    /\ UNCHANGED << registryVars, active, completed, term_ok, sessionVars, command_open,
                    reply, supVars, childVars, sweepVars, tconn, thandle,
                    next_id, extVars >>

\* A caller that takes a dropped sender for a success.
SendResultLenient(r) == IF r = "err" THEN "Transport" ELSE "Ok"

\* interaction.rs 44-48: what response_rx.await yields to the caller: the
\* supervisor's result, or SessionComplete when the sender was dropped.
SendResult(r) ==
    CASE r = "ok" -> "Ok"
      [] r = "err" -> "Transport"
      [] OTHER -> "SessionComplete"

\* response_rx.await: Ok, the write's error, or SessionComplete when the
\* supervisor dropped the sender.
SendReply(t) ==
    /\ pc[t] = "send_wait"
    /\ reply[t] # "none"
    /\ Return(t, "send", tsess[t], 0, SendResult(reply[t]), 1)
    /\ reply' = [reply EXCEPT ![t] = "none"]
    /\ active_lock' = NoTask
    /\ pc' = [pc EXCEPT ![t] = "idle"]
    /\ tsess' = [tsess EXCEPT ![t] = NoSession]
    /\ UNCHANGED << registryVars, active, completed, term_ok, sessionVars, command_q,
                    command_open, supVars, childVars, sweepVars, tconn,
                    thandle, next_id, extVars >>

\* Where a task goes on after terminate_session: back into the sweep of
\* cleanup_connection, back into the loop of shutdown, or to its caller.
AfterTerminate(t) ==
    IF registry_lock = t THEN "sweep"
    ELSE IF t \in shutting THEN "shutdown" ELSE "idle"

\* A sweep that propagated the error of terminate_session with `?` would stop
\* at the first failure.
AbortSweep(t) ==
    IF registry_lock = t THEN "sweep_abort"
    ELSE IF t \in shutting THEN "shutdown" ELSE "idle"

\* The same after a terminate_session that returned an error: the sweep only
\* logs it.
AfterFailedTerminate(t) == AfterTerminate(t)

\* A terminate_session that looks the session up without removing it.
ActiveGet(s) == active

\* interaction.rs terminate_session: active.remove(session_id).
ActiveRemove(s) == active \ {s}

\* A snapshot that forgets the turn counter.
SnapshotNoTurns(s) ==
    [messages |-> messages[s], final_turn_count |-> 0, completed_at |-> utc]

\* interaction.rs terminate_session: the snapshot stored in the completed pool.
Snapshot(s) ==
    [messages |-> messages[s], final_turn_count |-> turn_count[s],
     completed_at |-> utc]

\* terminate_session up to the posted Shutdown: remove from the active pool
\* (SessionNotFound when absent), drop the guard, post Shutdown.
TerminateBegin(t, s) ==
    /\ attempted' = [attempted EXCEPT ![t] =
                        IF registry_lock = t
                        THEN [@ EXCEPT ![s] = [calls |-> @.calls + 1,
                                               failed |-> @.failed + (IF s \in active THEN 0 ELSE 1)]]
                        ELSE @]
    /\ IF s \notin active
       THEN /\ Return(t, "terminate", s, 0, "SessionNotFound", 0)
            /\ pc' = [pc EXCEPT ![t] = AfterFailedTerminate(t)]
            /\ UNCHANGED << active, command_q, tsess >>
       ELSE /\ active' = ActiveRemove(s)
            /\ tsess' = [tsess EXCEPT ![t] = s]
            /\ Silent
            /\ IF command_open[s]
               THEN /\ command_q' = [command_q EXCEPT ![s] =
                                        Append(@, [kind |-> "Shutdown", from |-> t])]
                    /\ pc' = [pc EXCEPT ![t] = "term_wait"]
               ELSE /\ command_q' = command_q
                    /\ pc' = [pc EXCEPT ![t] = "term_snap"]

\* A caller's terminate_session(s).
TerminateSession(t, s) ==
    /\ pc[t] = "idle"
    /\ active_lock = NoTask
    /\ s \in Spawned
    /\ TerminateBegin(t, s)
    /\ UNCHANGED << registryVars, active_lock, completed, term_ok, sessionVars,
                    command_open, reply, supVars, childVars, to_remove, count,
                    sweep_start, tconn, thandle, next_id, extVars >>

\* terminate_session after the reply (or with the supervisor already gone):
\* snapshot turn count and buffer, insert into the completed pool, return Ok.
TerminateFinish(t) ==
    /\ \/ pc[t] = "term_wait" /\ reply[t] # "none"
       \/ pc[t] = "term_snap"
    /\ completed' = (tsess[t] :> Snapshot(tsess[t])) @@ completed
    /\ term_ok' = [term_ok EXCEPT ![tsess[t]] = @ + 1]
    /\ reply' = [reply EXCEPT ![t] = "none"]
    /\ Return(t, "terminate", tsess[t], 0, "Ok", 0)
    /\ pc' = [pc EXCEPT ![t] = AfterTerminate(t)]
    /\ tsess' = [tsess EXCEPT ![t] = NoSession]
    /\ UNCHANGED << registryVars, active, active_lock, sessionVars, command_q,
                    command_open, supVars, childVars, sweepVars, tconn,
                    thandle, next_id, extVars >>

\* A sweep whose filter forgot the connection id.
SweepAllKeys(c) == {k \in Keys : agents[k] # NoSession}

\* registry.rs cleanup_connection: the keys of the connection.
SweepKeys(c) == {k \in Keys : k[1] = c /\ agents[k] # NoSession}

\* The registry entries of connection c: (handle, session id) pairs.
EntriesOf(c) == {<< h, agents[<< c, h >>] >> : h \in {x \in Handles : agents[<< c, x >>] # NoSession}}

\* cleanup_connection: lock the registry, collect the connection's keys.
CleanupBegin(t, c) ==
    /\ pc[t] = "idle"
    /\ registry_lock = NoTask
    /\ c \notin dropped
    /\ dropped' = dropped \cup {c}
    /\ registry_lock' = t
    /\ to_remove' = [to_remove EXCEPT ![t] = SweepKeys(c)]
    /\ count' = [count EXCEPT ![t] = Cardinality(SweepKeys(c))]
    /\ attempted' = [attempted EXCEPT ![t] = NoAttempts]
    /\ sweep_start' = [sweep_start EXCEPT ![t] = EntriesOf(c)]
    /\ tconn' = [tconn EXCEPT ![t] = c]
    /\ pc' = [pc EXCEPT ![t] = "sweep"]
    /\ Silent
    /\ UNCHANGED << agents, ever_reg, poolVars, sessionVars, channelVars,
                    supVars, childVars, tsess, thandle, next_id, extVars >>

\* One iteration of the sweep: agents.remove(&key), then terminate_session.
CleanupStep(t) ==
    /\ pc[t] = "sweep"
    /\ to_remove[t] # {}
    /\ active_lock = NoTask
    /\ \E k \in to_remove[t] :
        /\ to_remove' = [to_remove EXCEPT ![t] = @ \ {k}]
        /\ IF agents[k] # NoSession
           THEN /\ agents' = [agents EXCEPT ![k] = NoSession]
                /\ TerminateBegin(t, agents[k])
           ELSE /\ Silent
                /\ UNCHANGED << agents, active, command_q, tsess, attempted, pc >>
    /\ UNCHANGED << registry_lock, ever_reg, dropped, active_lock, completed, term_ok,
                    sessionVars, command_open, reply, supVars, childVars, count,
                    sweep_start, tconn, thandle, next_id, extVars >>

\* cleanup_connection returns count and releases the registry.
CleanupReturn(t) ==
    /\ \/ pc[t] = "sweep" /\ to_remove[t] = {}
       \/ pc[t] = "sweep_abort"
    /\ registry_lock' = NoTask
    /\ Return(t, "cleanup", NoSession, tconn[t], "Ok", count[t])
    /\ pc' = [pc EXCEPT ![t] = "idle"]
    /\ tconn' = [tconn EXCEPT ![t] = 0]
    /\ to_remove' = [to_remove EXCEPT ![t] = {}]
    /\ count' = [count EXCEPT ![t] = 0]
    /\ attempted' = [attempted EXCEPT ![t] = NoAttempts]
    /\ sweep_start' = [sweep_start EXCEPT ![t] = {}]
    /\ UNCHANGED << agents, ever_reg, dropped, poolVars, sessionVars, channelVars,
                    supVars, childVars, tsess, thandle, next_id, extVars >>

\* output.rs get_output / info.rs get_session_info: the active pool first,
\* then the completed pool.
GetOutput(s) ==
    IF s \in active
    THEN [found |-> TRUE, is_complete |-> is_complete[s],
          turn_count |-> turn_count[s], output |-> messages[s]]
    ELSE IF s \in DOMAIN completed
    THEN [found |-> TRUE, is_complete |-> TRUE,
          turn_count |-> completed[s].final_turn_count,
          output |-> completed[s].messages]
    ELSE [found |-> FALSE, is_complete |-> FALSE, turn_count |-> 0, output |-> << >>]

\* registry.rs list_all: the connection's entries whose session the manager
\* still knows, one summary each; the sort by agent number makes the list a
\* function of this set.
ListAll(c) ==
    {[agent |-> e[1], session_id |-> e[2],
      message_count |-> Len(GetOutput(e[2]).output),
      completed |-> GetOutput(e[2]).is_complete] :
        e \in {x \in EntriesOf(c) : GetOutput(x[2]).found}}

\* ------------------------------------------------------------ pagination
\* i64 and usize at the scaled width IntBits.
MinInt == -(2 ^ (IntBits - 1))
MaxInt == 2 ^ (IntBits - 1) - 1
Offsets == MinInt..MaxInt
Lengths == 0..MaxLength

\* Arithmetic overflow panics in a build with overflow checks and wraps
\* without them.
Builds == {"checked", "unchecked"}
Panic == MinInt - 1

\* `x as usize` of an i64.
AsUsize(x) == x % (2 ^ IntBits)

\* `-offset` of an i64: i64::MIN has no negation.
Neg(x, build) ==
    IF x = MinInt THEN (IF build = "checked" THEN Panic ELSE MinInt) ELSE -x

\* pagination.rs paginate_messages, tail mode: (-offset) as usize.
TailCount(offset, build) ==
    IF Neg(offset, build) = Panic THEN Panic ELSE AsUsize(Neg(offset, build))

Min2(a, b) == IF a < b THEN a ELSE b

\* pagination.rs paginate_messages: skip(start).take(length), or the last
\* tail_count entries.
paginate_messages(msgs, offset, length, build) ==
    IF offset >= 0
    THEN SubSeq(msgs, AsUsize(offset) + 1, Min2(AsUsize(offset) + length, Len(msgs)))
    ELSE SubSeq(msgs, Len(msgs) - Min2(TailCount(offset, build), Len(msgs)) + 1,
                Len(msgs))

\* pagination.rs calculate_has_more.
calculate_has_more(offset, messages_returned, total_messages) ==
    IF offset >= 0
    THEN AsUsize(offset) + messages_returned < total_messages
    ELSE FALSE

\* ------------------------------------------------------------- the clocks
\* Time passes: both clocks advance by d ms, up to the limit of the run.
Tick(d, limit) ==
    /\ now + d <= limit
    /\ now' = now + d
    /\ utc' = utc + d
    /\ Silent
    /\ UNCHANGED gc_wake
    /\ UNCHANGED << registryVars, poolVars, sessionVars, channelVars, supVars,
                    childVars, sweepVars, taskVars, next_id, readVars,
                    last_message_at, wireVars, shutVars, auxVars >>

\* The steps of the clock around the working threshold.
WorkSteps == {WORKING_THRESHOLD_MS - 1, WORKING_THRESHOLD_MS}

\* last_msg_time.elapsed().as_millis() as u64
ElapsedMs(s) == now - last_message_at[s]

\* A threshold test that still counts the 2000th millisecond.
WithinThresholdInclusive(e) == e <= WORKING_THRESHOLD_MS

\* elapsed_ms < WORKING_THRESHOLD_MS
WithinThreshold(e) == e < WORKING_THRESHOLD_MS

\* output.rs get_output: working of a session of the active pool.
OutputWorking(s) == IF is_complete[s] THEN FALSE ELSE WithinThreshold(ElapsedMs(s))

\* info.rs get_session_info: working of a session of the active pool.
InfoWorking(s) == IF is_complete[s] THEN FALSE ELSE WithinThreshold(ElapsedMs(s))

\* list.rs list_sessions: working of a session of the active pool.
ListWorking(s) == IF is_complete[s] THEN FALSE ELSE WithinThreshold(ElapsedMs(s))

\* info.rs is_working: false for a session that is not in the active pool.
IsWorking(s) ==
    IF s \in active
    THEN (IF is_complete[s] THEN FALSE ELSE WithinThreshold(ElapsedMs(s)))
    ELSE FALSE

\* A read that counts as activity of the session.
TouchedByRead(s) == [last_message_at EXCEPT ![s] = now]

\* The reads lock last_message_at and copy the instant out.
LastMessageAfterRead(s) == last_message_at

\* output.rs get_output(session_id, offset, length): the response, or the
\* panic of the negation.
GetOutputPage(s, offset, length, build) ==
    IF ~GetOutput(s).found
    THEN [outcome |-> "SessionNotFound", offset |-> offset, length |-> length]
    ELSE IF offset < 0 /\ TailCount(offset, build) = Panic
    THEN [outcome |-> "panic", offset |-> offset, length |-> length]
    ELSE LET output == paginate_messages(GetOutput(s).output, offset, length, build)
             total == Len(GetOutput(s).output)
         IN  [outcome |-> "Ok", offset |-> offset, length |-> length,
              output |-> output,
              total_messages |-> total,
              messages_returned |-> Len(output),
              has_more |-> calculate_has_more(offset, Len(output), total),
              is_complete |-> GetOutput(s).is_complete,
              turn_count |-> GetOutput(s).turn_count,
              working |-> IF s \in active THEN OutputWorking(s) ELSE FALSE]

\* A caller's get_output(s, offset, length).
GetOutputCall(t, s, offset, length, build) ==
    /\ pc[t] = "idle"
    /\ active_lock = NoTask
    /\ s \in Spawned
    /\ page = NoPage
    /\ page' = GetOutputPage(s, offset, length, build)
    /\ Return(t, "get_output", s, 0, GetOutputPage(s, offset, length, build).outcome, 0)
    /\ last_message_at' = LastMessageAfterRead(s)
    /\ UNCHANGED << registryVars, poolVars, sessionVars, channelVars, supVars,
                    childVars, sweepVars, taskVars, next_id, observed, clockVars, wireVars, shutVars, auxVars >>

\* info.rs get_session_info: the active pool first, then the completed pool.
GetSessionInfo(s) ==
    IF s \in active
    THEN [outcome |-> "Ok", working |-> InfoWorking(s),
          turn_count |-> turn_count[s], max_turns |-> max_turns[s],
          message_count |-> Len(messages[s]), is_complete |-> is_complete[s]]
    ELSE IF s \in DOMAIN completed
    THEN [outcome |-> "Ok", working |-> FALSE,
          turn_count |-> completed[s].final_turn_count, max_turns |-> 0,
          message_count |-> Len(completed[s].messages), is_complete |-> TRUE]
    ELSE [outcome |-> "SessionNotFound"]

\* A caller's get_session_info(s).
GetSessionInfoCall(t, s) ==
    /\ pc[t] = "idle"
    /\ active_lock = NoTask
    /\ s \in Spawned
    /\ page = NoPage
    /\ page' = GetSessionInfo(s)
    /\ Return(t, "get_session_info", s, 0, GetSessionInfo(s).outcome, 0)
    /\ last_message_at' = LastMessageAfterRead(s)
    /\ UNCHANGED << registryVars, poolVars, sessionVars, channelVars, supVars,
                    childVars, sweepVars, taskVars, next_id, observed, clockVars, wireVars, shutVars, auxVars >>

\* A caller's is_working(s).
IsWorkingCall(t, s) ==
    /\ pc[t] = "idle"
    /\ active_lock = NoTask
    /\ s \in Spawned
    /\ page = NoPage
    /\ page' = [outcome |-> "Ok", working |-> IsWorking(s)]
    /\ Return(t, "is_working", s, 0, "Ok", 0)
    /\ last_message_at' = LastMessageAfterRead(s)
    /\ UNCHANGED << registryVars, poolVars, sessionVars, channelVars, supVars,
                    childVars, sweepVars, taskVars, next_id, observed, clockVars, wireVars, shutVars, auxVars >>

\* list.rs list_sessions(include_completed, _): one AgentInfo per session of
\* the active pool and, when asked for, of the completed pool.
ListSessions(include_completed) ==
    [outcome |-> "Ok",
     agents |->
        [s \in active \cup (IF include_completed THEN DOMAIN completed ELSE {}) |->
            IF s \in active
            THEN [working |-> ListWorking(s), turn_count |-> turn_count[s],
                  max_turns |-> max_turns[s],
                  message_count |-> Len(messages[s]),
                  is_complete |-> is_complete[s]]
            ELSE [working |-> FALSE,
                  turn_count |-> completed[s].final_turn_count, max_turns |-> 0,
                  message_count |-> Len(completed[s].messages),
                  is_complete |-> TRUE]],
     total_active |-> Cardinality(active),
     total_completed |-> IF include_completed THEN Cardinality(DOMAIN completed) ELSE 0]

\* A caller's list_sessions(include_completed, _).
ListSessionsCall(t, include_completed) ==
    /\ pc[t] = "idle"
    /\ active_lock = NoTask
    /\ page = NoPage
    /\ page' = ListSessions(include_completed)
    /\ Return(t, "list_sessions", NoSession, 0, "Ok", 0)
    /\ last_message_at' = last_message_at
    /\ UNCHANGED << registryVars, poolVars, sessionVars, channelVars, supVars,
                    childVars, sweepVars, taskVars, next_id, observed, clockVars, wireVars, shutVars, auxVars >>

\* The caller has consumed the response.
PageDone ==
    /\ page # NoPage
    /\ page' = NoPage
    /\ Silent
    /\ UNCHANGED << registryVars, poolVars, sessionVars, channelVars, supVars,
                    childVars, sweepVars, taskVars, next_id, observed, clockVars,
                    last_message_at, wireVars, shutVars, auxVars >>

\* A read of session s by any caller.
Read(s) ==
    /\ Silent
    /\ active_lock = NoTask
    /\ s \in Spawned
    /\ GetOutput(s).found
    /\ observed' = [observed EXCEPT ![s] = GetOutput(s).turn_count]
    /\ UNCHANGED << page, clockVars, last_message_at, wireVars, shutVars, auxVars >>
    /\ UNCHANGED << registryVars, poolVars, sessionVars, channelVars, supVars,
                    childVars, sweepVars, taskVars, next_id >>




\* ------------------------------------------- SubprocessTransport lifecycle
\* config.rs 10-20: the names a user override may not set.
DANGEROUS_ENV_VARS ==
    {"LD_PRELOAD", "LD_LIBRARY_PATH", "DYLD_INSERT_LIBRARIES",
     "DYLD_LIBRARY_PATH", "PATH", "NODE_OPTIONS", "PYTHONPATH", "PERL5LIB",
     "RUBYLIB"}

\* HashMap::insert: the value of k becomes v, whether or not k was present.
HashMapInsert(m, k, v) ==
    [x \in DOMAIN m \cup {k} |-> IF x = k THEN v ELSE m[x]]

\* lifecycle.rs 33-38: every user override whose name is not, by string
\* equality, an element of DANGEROUS_ENV_VARS is inserted.
UserOverrides(env, user) ==
    LET kept == {k \in DOMAIN user : k \notin DANGEROUS_ENV_VARS}
    IN [k \in DOMAIN env \cup kept |-> IF k \in kept THEN user[k] ELSE env[k]]

\* lifecycle.rs 31-48: the environment handed to the command: the parent's,
\* the user's overrides, the two identity variables, PWD when cwd is set.
process_env(env, user, cwd) ==
    LET a == UserOverrides(env, user)
        b == HashMapInsert(a, "CLAUDE_CODE_ENTRYPOINT", "sdk-rust")
        c == HashMapInsert(b, "CLAUDE_AGENT_SDK_VERSION", "VERSION")
    IN IF cwd THEN HashMapInsert(c, "PWD", "cwd") ELSE c

\* The names the runs set in the parent's environment and in the options.
EnvNames ==
    {"LD_PRELOAD", "DYLD_FRAMEWORK_PATH", "FOO", "PWD", "CLAUDE_CODE_ENTRYPOINT"}

\* The SDK's own process has k set (before the connect reads env::vars()).
ParentSetenv(k) ==
    /\ proc = "none"
    /\ k \notin DOMAIN parent_env
    /\ parent_env' = HashMapInsert(parent_env, k, "parent")
    /\ Silent
    /\ UNCHANGED << options_env, options_cwd, child_env >>
    /\ UNCHANGED exceptEnv

\* options.rs 49: the user puts an override of k into ClaudeAgentOptions.env.
OptionEnv(k) ==
    /\ proc = "none"
    /\ k \notin DOMAIN options_env
    /\ options_env' = HashMapInsert(options_env, k, "user")
    /\ Silent
    /\ UNCHANGED << parent_env, options_cwd, child_env >>
    /\ UNCHANGED exceptEnv

\* The user sets ClaudeAgentOptions.cwd (to a directory that exists).
OptionCwd ==
    /\ proc = "none"
    /\ ~options_cwd
    /\ options_cwd' = TRUE
    /\ Silent
    /\ UNCHANGED << parent_env, options_env, child_env >>
    /\ UNCHANGED exceptEnv

\* lifecycle.rs connect_impl: spawn the child with the merged environment and
\* piped stdio; in string mode stdin is closed at once.  (The first connect
\* of a transport.)
Connect(mode) ==
    /\ tr_process = "none" /\ proc = "none"
    /\ tr_pc = "idle"
    /\ child_env' = process_env(parent_env, options_env, options_cwd)
    /\ UNCHANGED << parent_env, options_env, options_cwd >>
    /\ proc' = "running"
    /\ tr_process' = "held"
    /\ tr_stdin' = (mode = "stream")
    /\ tr_ready' = TRUE
    /\ Silent
    /\ UNCHANGED << tr_reader, tr_pc, tr_closes, tr_deadline >>
    /\ UNCHANGED exceptTransport

\* reader.rs 18-29, 116-117: read_messages takes stdout and the process into
\* the reader task and stores the task's handle.
ReadMessages ==
    /\ tr_process = "held"
    /\ tr_pc = "idle"
    /\ tr_process' = "reader"
    /\ tr_reader' = "running"
    /\ Silent
    /\ UNCHANGED << tr_stdin, tr_ready, tr_pc, tr_closes, tr_deadline, proc >>
    /\ UNCHANGED exceptClose

\* The child exits on its own.
ProcExit ==
    /\ proc = "running"
    /\ proc' = "exited"
    /\ Silent
    /\ UNCHANGED << tr_process, tr_stdin, tr_reader, tr_ready, tr_pc, tr_closes,
                    tr_deadline >>
    /\ UNCHANGED exceptClose

\* What close returns to its caller.
CloseReturns(res) ==
    /\ Return(NoTask, "close", NoSession, 0, res, 0)
    /\ tr_closes' = tr_closes + 1
    /\ tr_pc' = "idle"
    /\ tr_deadline' = 0

\* lifecycle.rs 131-152: close up to the wait: not ready, stdin shut down,
\* reader task aborted, process taken; without a process close returns Ok.
CloseBegin ==
    /\ tr_pc = "idle"
    /\ tr_closes < MaxCloses
    /\ tr_ready' = FALSE
    /\ tr_stdin' = FALSE
    /\ tr_reader' = IF tr_reader = "running" THEN "aborted" ELSE tr_reader
    /\ IF tr_process = "held"
       THEN /\ tr_process' = "taken"
            /\ tr_pc' = "wait"
            /\ tr_deadline' = now + CLOSE_TIMEOUT_MS
            /\ Silent
            /\ UNCHANGED tr_closes
       ELSE /\ CloseReturns("Ok")
            /\ UNCHANGED tr_process
    /\ UNCHANGED proc
    /\ UNCHANGED exceptClose

\* lifecycle.rs 156-159: the child exited within the timeout.
CloseExited ==
    /\ tr_pc = "wait"
    /\ proc = "exited"
    /\ CloseReturns("Ok")
    /\ UNCHANGED << tr_process, tr_stdin, tr_reader, tr_ready, proc >>
    /\ UNCHANGED exceptClose

\* lifecycle.rs 160-162: wait fails: close returns the I/O error.
CloseWaitError ==
    /\ tr_pc = "wait"
    /\ CloseReturns("Io")
    /\ UNCHANGED << tr_process, tr_stdin, tr_reader, tr_ready, proc >>
    /\ UNCHANGED exceptClose

\* lifecycle.rs 163-167: the timeout of 5 s fires: kill the child and reap it.
CloseTimeout ==
    /\ tr_pc = "wait"
    /\ now >= tr_deadline
    /\ proc = "running"
    /\ proc' = "killed"
    /\ CloseReturns("Ok")
    /\ UNCHANGED << tr_process, tr_stdin, tr_reader, tr_ready >>
    /\ UNCHANGED exceptClose

\* lifecycle.rs 175-197: drop: stdin dropped, reader aborted, the process
\* killed if the transport still holds it.
TransportDrop ==
    /\ tr_pc = "idle"
    /\ tr_process # "none"
    /\ tr_stdin' = FALSE
    /\ tr_reader' = IF tr_reader = "running" THEN "aborted" ELSE tr_reader
    /\ tr_process' = IF tr_process = "held" THEN "taken" ELSE tr_process
    /\ proc' = IF tr_process = "held" /\ proc = "running" THEN "killed" ELSE proc
    /\ tr_pc' = "dropped"
    /\ Silent
    /\ UNCHANGED << tr_ready, tr_closes, tr_deadline >>
    /\ UNCHANGED exceptClose

\* --------------------------------------------------------- ProtocolHandler
\* handler.rs 82: RequestId::new(format!("req-{id}")): the id is the prefix
\* and the decimal counter value; the handler instance is not part of it.
RequestId(n) == [prefix |-> "req-", n |-> n]

\* handler.rs 80-83: next_id: fetch_add on the handler's own counter.
NextIdBody(h) ==
    /\ next_request_id[h] <= MaxRequestId
    /\ next_request_id' = [next_request_id EXCEPT ![h] = @ + 1]
    /\ issued' = issued \cup {RequestId(next_request_id[h])}

\* A direct call of next_id.
NextId(h) ==
    /\ NextIdBody(h)
    /\ Return(NoTask, "next_id", NoSession, h, "Ok", next_request_id[h])
    /\ UNCHANGED << initialized, pending_requests, created, response_rx >>
    /\ UNCHANGED chanVars
    /\ UNCHANGED exceptProto

\* The kinds of control request a handler creates.
RequestKinds == {"Interrupt", "SendMessage", "HookResponse", "PermissionResponse"}

\* handler.rs 198-238: create_interrupt_request, create_send_message_request,
\* create_hook_response, create_permission_response: a request stamped with
\* next_id().
CreateRequest(h, kind) ==
    /\ NextIdBody(h)
    /\ created' = [created EXCEPT ![h] = @ \cup {next_request_id[h]}]
    /\ Return(NoTask, "next_id", NoSession, h, kind, next_request_id[h])
    /\ UNCHANGED << initialized, pending_requests, response_rx >>
    /\ UNCHANGED chanVars
    /\ UNCHANGED exceptProto

\* handler.rs 116-137: send_request: refused before initialization; else the
\* waiter is inserted under the request's id and its receiver returned.
SendRequest(h, id) ==
    /\ id \in created[h]
    /\ created' = [created EXCEPT ![h] = @ \ {id}]
    /\ IF ~initialized[h]
       THEN /\ Return(NoTask, "send_request", NoSession, h, "Protocol", id)
            /\ UNCHANGED << pending_requests, response_rx >>
       ELSE /\ pending_requests' = [pending_requests EXCEPT ![h] = @ \cup {id}]
            /\ response_rx' = [response_rx EXCEPT ![h][id] = "waiting"]
            /\ Return(NoTask, "send_request", NoSession, h, "Ok", id)
    /\ UNCHANGED << next_request_id, initialized, issued >>
    /\ UNCHANGED chanVars
    /\ UNCHANGED exceptProto

\* The caller drops the receiver before the response arrives.
WaiterDrop(h, id) ==
    /\ response_rx[h][id] = "waiting"
    /\ response_rx' = [response_rx EXCEPT ![h][id] = "dropped"]
    /\ Silent
    /\ UNCHANGED << next_request_id, initialized, pending_requests, created, issued >>
    /\ UNCHANGED chanVars
    /\ UNCHANGED exceptProto

\* A handler that accepts every version.
AnyVersion(v) == TRUE

\* handler.rs 101: the one protocol version the handler accepts.
SupportedVersion(v) == v = "1.0"

\* The protocol versions an init response carries in the runs.
Versions == {"1.0", "999.0", "1"}

\* handler.rs 99-110: handle_init_response.
HandleInitResponse(h, v) ==
    /\ IF SupportedVersion(v)
       THEN /\ initialized' = [initialized EXCEPT ![h] = TRUE]
            /\ Return(NoTask, "handle_init_response", NoSession, h, "Ok", 0)
       ELSE /\ Return(NoTask, "handle_init_response", NoSession, h, "Protocol", 0)
            /\ UNCHANGED initialized
    /\ UNCHANGED << next_request_id, pending_requests, created, response_rx, issued >>
    /\ UNCHANGED chanVars
    /\ UNCHANGED exceptProto

\* handler.rs 73-75: set_initialized.
SetInitialized(h, value) ==
    /\ initialized[h] # value
    /\ initialized' = [initialized EXCEPT ![h] = value]
    /\ Silent
    /\ UNCHANGED << next_request_id, pending_requests, created, response_rx, issued >>
    /\ UNCHANGED chanVars
    /\ UNCHANGED exceptProto

\* A lookup that leaves the waiter in the map.
PendingGet(p, id) == p

\* handler.rs 169: pending_requests.remove(id).
PendingRemove(p, id) == p \ {id}

\* handler.rs 166-174: a success or error response: the waiter of the id is
\* removed and the response sent to it; a failed send is ignored.
HandleResponse(h, kind, id) ==
    /\ pending_requests' = [pending_requests EXCEPT ![h] = PendingRemove(@, id)]
    /\ response_rx' = IF id \in pending_requests[h] /\ response_rx[h][id] = "waiting"
                      THEN [response_rx EXCEPT ![h][id] = kind]
                      ELSE response_rx
    /\ Return(NoTask, "handle_response", NoSession, h, "Ok", id)
    /\ UNCHANGED << next_request_id, initialized, created, issued >>
    /\ UNCHANGED chanVars
    /\ UNCHANGED exceptProto

\* handler.rs 175-187: a hook callback frame: forwarded to the hook channel
\* when one is set; an error when its receiver is gone.
HandleHook(h, id) ==
    /\ events_in[h] < MaxEvents
    /\ CASE hook_chan[h] = "open" ->
              /\ hook_q' = [hook_q EXCEPT ![h] = Append(@, id)]
              /\ events_in' = [events_in EXCEPT ![h] = @ + 1]
              /\ Return(NoTask, "handle_hook", NoSession, h, "Ok", id)
         [] hook_chan[h] = "closed" ->
              /\ Return(NoTask, "handle_hook", NoSession, h, "Protocol", id)
              /\ UNCHANGED << hook_q, events_in >>
         [] OTHER ->
              /\ Return(NoTask, "handle_hook", NoSession, h, "Ok", id)
              /\ UNCHANGED << hook_q, events_in >>
    /\ UNCHANGED << hook_chan, permission_chan, permission_q >>
    /\ UNCHANGED protoVars
    /\ UNCHANGED exceptProto

\* handler.rs 188-194: a permission callback frame, likewise.
HandlePermission(h, id) ==
    /\ events_in[h] < MaxEvents
    /\ CASE permission_chan[h] = "open" ->
              /\ permission_q' = [permission_q EXCEPT ![h] = Append(@, id)]
              /\ events_in' = [events_in EXCEPT ![h] = @ + 1]
              /\ Return(NoTask, "handle_permission", NoSession, h, "Ok", id)
         [] permission_chan[h] = "closed" ->
              /\ Return(NoTask, "handle_permission", NoSession, h, "Protocol", id)
              /\ UNCHANGED << permission_q, events_in >>
         [] OTHER ->
              /\ Return(NoTask, "handle_permission", NoSession, h, "Ok", id)
              /\ UNCHANGED << permission_q, events_in >>
    /\ UNCHANGED << hook_chan, permission_chan, hook_q >>
    /\ UNCHANGED protoVars
    /\ UNCHANGED exceptProto

\* ------------------------------------------- ClaudeSDKClient's workers
\* client_impl.rs 66-81, 112-140: the client gives its handler the two
\* callback channels and marks it initialized; a worker is started for each
\* configured manager, and the receiver of the other channel is dropped.
ClientChannels(h, hooks, perms) ==
    /\ hook_chan[h] = "none" /\ permission_chan[h] = "none"
    /\ hook_chan' = [hook_chan EXCEPT ![h] = IF hooks THEN "open" ELSE "closed"]
    /\ permission_chan' = [permission_chan EXCEPT ![h] = IF perms THEN "open" ELSE "closed"]
    /\ hook_worker' = [hook_worker EXCEPT ![h] = IF hooks THEN "recv" ELSE "none"]
    /\ permission_worker' = [permission_worker EXCEPT ![h] = IF perms THEN "recv" ELSE "none"]
    /\ initialized' = [initialized EXCEPT ![h] = TRUE]
    /\ Silent
    /\ UNCHANGED << hook_q, permission_q, events_in >>
    /\ UNCHANGED << hook_cur, permission_cur, control_q, cb_errors >>
    /\ UNCHANGED << next_request_id, pending_requests, created, response_rx, issued >>
    /\ UNCHANGED exceptClient

\* A worker that leaves its loop when a callback fails.
WorkerExitsOnError == "exited"

\* tasks.rs 187-189, 226-228: the error is logged and the loop goes on to
\* the next recv.
WorkerAfterError == "recv"

\* tasks.rs 145: hook_rx.recv() hands the worker the next event.
HookRecv(h) ==
    /\ hook_worker[h] = "recv"
    /\ hook_q[h] # << >>
    /\ hook_q' = [hook_q EXCEPT ![h] = Tail(@)]
    /\ hook_cur' = [hook_cur EXCEPT ![h] = Head(hook_q[h])]
    /\ hook_worker' = [hook_worker EXCEPT ![h] = "invoke"]
    /\ Silent
    /\ UNCHANGED << hook_chan, permission_chan, permission_q, events_in >>
    /\ UNCHANGED << permission_worker, permission_cur, control_q, cb_errors >>
    /\ UNCHANGED protoVars
    /\ UNCHANGED exceptClient

\* tasks.rs 169-173: the matcher chain returns an output.
HookCallbackOk(h) ==
    /\ hook_worker[h] = "invoke"
    /\ hook_worker' = [hook_worker EXCEPT ![h] = "respond"]
    /\ Return(NoTask, "hook_callback", NoSession, h, "Ok", hook_cur[h])
    /\ UNCHANGED << hook_cur, permission_worker, permission_cur, control_q, cb_errors >>
    /\ UNCHANGED << protoVars, chanVars >>
    /\ UNCHANGED exceptClient

\* tasks.rs 187-189: a callback of the chain returns an error.
HookCallbackErr(h) ==
    /\ hook_worker[h] = "invoke"
    /\ hook_worker' = [hook_worker EXCEPT ![h] = WorkerAfterError]
    /\ hook_cur' = [hook_cur EXCEPT ![h] = 0]
    /\ cb_errors' = [cb_errors EXCEPT ![h] = @ + 1]
    /\ Return(NoTask, "hook_callback", NoSession, h, "Err", hook_cur[h])
    /\ UNCHANGED << permission_worker, permission_cur, control_q >>
    /\ UNCHANGED << protoVars, chanVars >>
    /\ UNCHANGED exceptClient

\* tasks.rs 176-185: create_hook_response and control_tx.send.
HookRespond(h) ==
    /\ hook_worker[h] = "respond"
    /\ NextIdBody(h)
    /\ control_q' = [control_q EXCEPT ![h] =
                        Append(@, [kind |-> "HookResponse", id |-> next_request_id[h],
                                   ref |-> hook_cur[h]])]
    /\ hook_worker' = [hook_worker EXCEPT ![h] = "recv"]
    /\ hook_cur' = [hook_cur EXCEPT ![h] = 0]
    /\ Return(NoTask, "hook_response", NoSession, h, "Ok", hook_cur[h])
    /\ UNCHANGED << permission_worker, permission_cur, cb_errors >>
    /\ UNCHANGED << initialized, pending_requests, created, response_rx >>
    /\ UNCHANGED chanVars
    /\ UNCHANGED exceptClient

\* tasks.rs 202: permission_rx.recv() hands the worker the next request.
PermissionRecv(h) ==
    /\ permission_worker[h] = "recv"
    /\ permission_q[h] # << >>
    /\ permission_q' = [permission_q EXCEPT ![h] = Tail(@)]
    /\ permission_cur' = [permission_cur EXCEPT ![h] = Head(permission_q[h])]
    /\ permission_worker' = [permission_worker EXCEPT ![h] = "invoke"]
    /\ Silent
    /\ UNCHANGED << hook_chan, permission_chan, hook_q, events_in >>
    /\ UNCHANGED << hook_worker, hook_cur, control_q, cb_errors >>
    /\ UNCHANGED protoVars
    /\ UNCHANGED exceptClient

\* tasks.rs 205-213: can_use_tool returns a result.
PermissionCallbackOk(h) ==
    /\ permission_worker[h] = "invoke"
    /\ permission_worker' = [permission_worker EXCEPT ![h] = "respond"]
    /\ Return(NoTask, "permission_callback", NoSession, h, "Ok", permission_cur[h])
    /\ UNCHANGED << hook_worker, hook_cur, permission_cur, control_q, cb_errors >>
    /\ UNCHANGED << protoVars, chanVars >>
    /\ UNCHANGED exceptClient

\* tasks.rs 226-228: can_use_tool returns an error.
PermissionCallbackErr(h) ==
    /\ permission_worker[h] = "invoke"
    /\ permission_worker' = [permission_worker EXCEPT ![h] = WorkerAfterError]
    /\ permission_cur' = [permission_cur EXCEPT ![h] = 0]
    /\ cb_errors' = [cb_errors EXCEPT ![h] = @ + 1]
    /\ Return(NoTask, "permission_callback", NoSession, h, "Err", permission_cur[h])
    /\ UNCHANGED << hook_worker, hook_cur, control_q >>
    /\ UNCHANGED << protoVars, chanVars >>
    /\ UNCHANGED exceptClient

\* tasks.rs 214-224: create_permission_response and control_tx.send.
PermissionRespond(h) ==
    /\ permission_worker[h] = "respond"
    /\ NextIdBody(h)
    /\ control_q' = [control_q EXCEPT ![h] =
                        Append(@, [kind |-> "PermissionResponse",
                                   id |-> next_request_id[h],
                                   ref |-> permission_cur[h]])]
    /\ permission_worker' = [permission_worker EXCEPT ![h] = "recv"]
    /\ permission_cur' = [permission_cur EXCEPT ![h] = 0]
    /\ Return(NoTask, "permission_response", NoSession, h, "Ok", permission_cur[h])
    /\ UNCHANGED << hook_worker, hook_cur, cb_errors >>
    /\ UNCHANGED << initialized, pending_requests, created, response_rx >>
    /\ UNCHANGED chanVars
    /\ UNCHANGED exceptClient

\* tasks.rs 83-131: control_writer_task takes the next request and writes
\* it to the transport.
ControlWrite(h) ==
    /\ control_q[h] # << >>
    /\ control_q' = [control_q EXCEPT ![h] = Tail(@)]
    /\ Silent
    /\ UNCHANGED << hook_worker, hook_cur, permission_worker, permission_cur, cb_errors >>
    /\ UNCHANGED << protoVars, chanVars >>
    /\ UNCHANGED exceptClient

\* ------------------------------------------------ writes to the child
\* The writes of the client whose handler is 1.  A frame reaches stdin in
\* two parts: write_all may hand it over in pieces, and the newline is its
\* last byte.
ControlFrame(id) == [from |-> "control", n |-> id]
UserFrame(n) == [from |-> "user", n |-> n]
FrameHead(f) == [frame |-> f, part |-> "head"]
FrameTail(f) == [frame |-> f, part |-> "tail"]

\* A transport that anyone may use at any time.
TransportUnguarded == TRUE

\* client_impl.rs 173, tasks.rs 127: transport.lock().await returns when no
\* one holds the mutex.
TransportFree == transport_lock = "none"

\* client_impl.rs 185-193: interrupt: an Interrupt request stamped with
\* next_id() is queued on the control channel.
Interrupt(h) ==
    /\ NextIdBody(h)
    /\ control_q' = [control_q EXCEPT ![h] =
                        Append(@, [kind |-> "Interrupt", id |-> next_request_id[h],
                                   ref |-> 0])]
    /\ Return(NoTask, "interrupt", NoSession, h, "Ok", next_request_id[h])
    /\ UNCHANGED << hook_worker, hook_cur, permission_worker, permission_cur, cb_errors >>
    /\ UNCHANGED << initialized, pending_requests, created, response_rx >>
    /\ UNCHANGED writeVars
    /\ UNCHANGED exceptWrite

\* tasks.rs 89: control_rx.recv() hands the writer task the next request;
\* tasks.rs 91-118: its line is built.
WriterTake ==
    /\ wr_pc = "recv"
    /\ control_q[1] # << >>
    /\ wr_cur' = Head(control_q[1]).id
    /\ control_q' = [control_q EXCEPT ![1] = Tail(@)]
    /\ wr_pc' = "lock"
    /\ Silent
    /\ UNCHANGED << transport_lock, snd_pc, snd_count, child_stdin, stdin_broken >>
    /\ UNCHANGED << hook_worker, hook_cur, permission_worker, permission_cur, cb_errors >>
    /\ UNCHANGED protoVars
    /\ UNCHANGED exceptWrite

\* tasks.rs 127: the writer task takes the transport mutex.
WriterLock ==
    /\ wr_pc = "lock"
    /\ TransportFree
    /\ transport_lock' = "writer"
    /\ wr_pc' = "write"
    /\ Silent
    /\ UNCHANGED << wr_cur, snd_pc, snd_count, child_stdin, stdin_broken >>
    /\ UNCHANGED << protoVars, workerVars >>
    /\ UNCHANGED exceptWrite

\* transport.rs 117-120: write_all has handed over the first part.
WriterWrite ==
    /\ wr_pc = "write"
    /\ ~stdin_broken
    /\ child_stdin' = Append(child_stdin, FrameHead(ControlFrame(wr_cur)))
    /\ wr_pc' = "flush"
    /\ Silent
    /\ UNCHANGED << transport_lock, wr_cur, snd_pc, snd_count, stdin_broken >>
    /\ UNCHANGED << protoVars, workerVars >>
    /\ UNCHANGED exceptWrite

\* transport.rs 117-127, tasks.rs 127-131: the rest of the line is written
\* and flushed; the guard is dropped at the end of the iteration.
WriterFlush ==
    /\ wr_pc = "flush"
    /\ ~stdin_broken
    /\ child_stdin' = Append(child_stdin, FrameTail(ControlFrame(wr_cur)))
    /\ wr_pc' = "recv"
    /\ wr_cur' = 0
    /\ transport_lock' = "none"
    /\ Return(NoTask, "control_write", NoSession, 1, "Ok", wr_cur)
    /\ UNCHANGED << snd_pc, snd_count, stdin_broken >>
    /\ UNCHANGED << protoVars, workerVars >>
    /\ UNCHANGED exceptWrite

\* transport.rs 108-125, tasks.rs 128-130: the write fails (not ready, no
\* stdin, or an I/O error, after which stdin stays unusable): the writer
\* task leaves its loop.
WriterFail ==
    /\ wr_pc \in {"write", "flush"}
    /\ stdin_broken' = TRUE
    /\ wr_pc' = "exited"
    /\ wr_cur' = 0
    /\ transport_lock' = "none"
    /\ Return(NoTask, "control_write", NoSession, 1, "Transport", wr_cur)
    /\ UNCHANGED << snd_pc, snd_count, child_stdin >>
    /\ UNCHANGED << protoVars, workerVars >>
    /\ UNCHANGED exceptWrite

\* client_impl.rs 162-171: send_message builds the user frame's line.
SendBegin ==
    /\ snd_pc = "idle"
    /\ snd_count < MaxSends
    /\ snd_count' = snd_count + 1
    /\ snd_pc' = "lock"
    /\ Silent
    /\ UNCHANGED << transport_lock, wr_pc, wr_cur, child_stdin, stdin_broken >>
    /\ UNCHANGED << protoVars, workerVars >>
    /\ UNCHANGED exceptWrite

\* client_impl.rs 173: send_message takes the transport mutex.
SendLock ==
    /\ snd_pc = "lock"
    /\ TransportFree
    /\ transport_lock' = "caller"
    /\ snd_pc' = "write"
    /\ Silent
    /\ UNCHANGED << wr_pc, wr_cur, snd_count, child_stdin, stdin_broken >>
    /\ UNCHANGED << protoVars, workerVars >>
    /\ UNCHANGED exceptWrite

\* transport.rs 117-120: write_all has handed over the first part.
SendWrite ==
    /\ snd_pc = "write"
    /\ ~stdin_broken
    /\ child_stdin' = Append(child_stdin, FrameHead(UserFrame(snd_count)))
    /\ snd_pc' = "flush"
    /\ Silent
    /\ UNCHANGED << transport_lock, wr_pc, wr_cur, snd_count, stdin_broken >>
    /\ UNCHANGED << protoVars, workerVars >>
    /\ UNCHANGED exceptWrite

\* transport.rs 117-127, client_impl.rs 174: the rest of the line is written
\* and flushed; send_message returns Ok and drops the guard.
SendFlush ==
    /\ snd_pc = "flush"
    /\ ~stdin_broken
    /\ child_stdin' = Append(child_stdin, FrameTail(UserFrame(snd_count)))
    /\ snd_pc' = "idle"
    /\ transport_lock' = "none"
    /\ Return(NoTask, "client_send", NoSession, 1, "Ok", snd_count)
    /\ UNCHANGED << wr_pc, wr_cur, snd_count, stdin_broken >>
    /\ UNCHANGED << protoVars, workerVars >>
    /\ UNCHANGED exceptWrite

\* transport.rs 108-125, client_impl.rs 174: the write fails and
\* send_message returns the error.
SendFail ==
    /\ snd_pc \in {"write", "flush"}
    /\ stdin_broken' = TRUE
    /\ snd_pc' = "idle"
    /\ transport_lock' = "none"
    /\ Return(NoTask, "client_send", NoSession, 1, "Transport", snd_count)
    /\ UNCHANGED << wr_pc, wr_cur, snd_count, child_stdin >>
    /\ UNCHANGED << protoVars, workerVars >>
    /\ UNCHANGED exceptWrite

\* ------------------------------------------------- AgentManager::shutdown
\* A shutdown that gave up at the first failed terminate_session.
ShutdownAbort(ids) == {}

\* core.rs 112-114: a failed terminate_session is logged and the loop goes on
\* with the ids that are left.
ShutdownAfterFailure(ids) == ids

\* core.rs 100-119: shutdown does not touch cleanup_handle.
CleanupAfterShutdown == cleanup_handle' = cleanup_handle

\* core.rs 104-107: collect the keys of the active pool under its lock.
ShutdownBegin(t) ==
    /\ pc[t] = "idle"
    /\ active_lock = NoTask
    /\ t \notin shutting
    /\ session_ids' = [session_ids EXCEPT ![t] = active]
    /\ shut_snapshot' = [shut_snapshot EXCEPT ![t] = active]
    /\ shut_failed' = [shut_failed EXCEPT ![t] = 0]
    /\ shutting' = shutting \cup {t}
    /\ pc' = [pc EXCEPT ![t] = "shutdown"]
    /\ UNCHANGED << shut_done, cleanup_handle >>
    /\ Silent
    /\ UNCHANGED << registryVars, poolVars, sessionVars, channelVars, supVars,
                    childVars, sweepVars, tsess, tconn, thandle, next_id,
                    readVars, clockVars, last_message_at, wireVars, auxVars >>

\* core.rs 110-115: one iteration: terminate_session for the next id.
ShutdownStep(t) ==
    /\ pc[t] = "shutdown"
    /\ session_ids[t] # {}
    /\ active_lock = NoTask
    /\ \E s \in session_ids[t] :
        /\ TerminateBegin(t, s)
        /\ session_ids' = [session_ids EXCEPT ![t] =
                              IF s \in active THEN @ \ {s}
                              ELSE ShutdownAfterFailure(@ \ {s})]
        /\ shut_failed' = [shut_failed EXCEPT ![t] =
                              IF s \in active THEN @ ELSE @ + 1]
    /\ UNCHANGED << shutting, shut_snapshot, shut_done, cleanup_handle >>
    /\ UNCHANGED << registryVars, active_lock, completed, term_ok, sessionVars,
                    command_open, reply, supVars, childVars, to_remove, count,
                    sweep_start, tconn, thandle, next_id, readVars, clockVars,
                    last_message_at, wireVars, auxVars >>

\* core.rs 117-118: the loop is over: Ok(()).
ShutdownReturn(t) ==
    /\ pc[t] = "shutdown"
    /\ session_ids[t] = {}
    /\ Return(t, "shutdown", NoSession, 0, "Ok", shut_failed[t])
    /\ pc' = [pc EXCEPT ![t] = "idle"]
    /\ shutting' = shutting \ {t}
    /\ shut_failed' = [shut_failed EXCEPT ![t] = 0]
    /\ shut_done' = TRUE
    /\ CleanupAfterShutdown
    /\ UNCHANGED << session_ids, shut_snapshot >>
    /\ UNCHANGED << registryVars, poolVars, sessionVars, channelVars, supVars,
                    childVars, sweepVars, tsess, tconn, thandle, next_id,
                    readVars, clockVars, last_message_at, wireVars, auxVars >>

\* ------------------------------------------------- the cleanup task (GC)
\* The wall clock is set back by d ms (it is not monotonic).
ClockStep(d) ==
    /\ utc - d >= now - MaxSkew
    /\ utc' = utc - d
    /\ Silent
    /\ UNCHANGED << now, gc_wake >>
    /\ UNCHANGED << registryVars, poolVars, sessionVars, channelVars, supVars,
                    childVars, sweepVars, taskVars, next_id, readVars,
                    last_message_at, wireVars, shutVars, auxVars >>

\* num_milliseconds() as u64, at the scaled width.
AsU64(x) == x % (2 ^ TimeBits)

\* core.rs 65-67: the age of a completed session at wall-clock reading t.
age_ms(session, t) == AsU64(t - session.completed_at)

\* A retain test that keeps a session one millisecond longer.
RetainedLong(session, t) == age_ms(session, t) <= COMPLETED_RETENTION_MS

\* core.rs 64-69: the retain closure.
Retained(session, t) == age_ms(session, t) < COMPLETED_RETENTION_MS

\* core.rs 57-70: one round of the cleanup task after its sleep has elapsed:
\* retain the young sessions, sleep again.
GcRun ==
    /\ cleanup_handle = "running"
    /\ now >= gc_wake
    /\ completed' = [s \in {x \in DOMAIN completed : Retained(completed[x], utc)}
                       |-> completed[s]]
    /\ gc_wake' = now + CLEANUP_INTERVAL_SECS * 1000
    /\ ret' = [NoRet EXCEPT !.op = "gc"]
    /\ UNCHANGED << now, utc >>
    /\ UNCHANGED << registryVars, active, active_lock, term_ok, sessionVars,
                    channelVars, supVars, childVars, sweepVars, taskVars,
                    next_id, readVars, last_message_at, wireVars, shutVars, auxVars >>

\* core.rs 87-93: the manager is dropped by its owner: the cleanup task is
\* aborted; no caller can use the manager any more.
DropManager ==
    /\ \A t \in Tasks : pc[t] = "idle"
    /\ active_lock = NoTask
    /\ cleanup_handle = "running"
    /\ cleanup_handle' = "aborted"
    /\ pc' = [t \in Tasks |-> "dropped"]
    /\ Silent
    /\ UNCHANGED << session_ids, shutting, shut_snapshot, shut_failed, shut_done >>
    /\ UNCHANGED << registryVars, poolVars, sessionVars, channelVars, supVars,
                    childVars, sweepVars, tsess, tconn, thandle, next_id,
                    readVars, clockVars, last_message_at, wireVars, auxVars >>

\* ------------------------------------------------- the end of the stream
\* A session whose child emits and then exits with status 0; a caller may send
\* to it.  The supervisor and the message reader are scheduled.
NextEof ==
    \/ \E m \in 1..MaxMaxTurns : SpawnSession(1, m, OneSession)
    \/ \E s \in OneSession : ChildEmit(s)
    \/ \E s \in OneSession : ChildExit(s, 0)
    \/ \E s \in OneSession : ReaderEof(s)
    \/ \E s \in OneSession : SupMessage(s)
    \/ \E s \in OneSession : SupTurnCount(s)
    \/ \E s \in OneSession : SupMaxTurns(s)
    \/ \E s \in OneSession : SupSendMessage(s)
    \/ \E s \in OneSession : SendMessage(1, s)
    \/ SendReply(1)

SpecEofFair ==
    /\ Init /\ [][NextEof]_vars
    /\ WF_vars(SendReply(1))
    /\ \A s \in OneSession :
          /\ WF_vars(ReaderEof(s))
          /\ WF_vars(SupMessage(s) \/ SupTurnCount(s) \/ SupMaxTurns(s)
                     \/ SupSendMessage(s))

\* next_message yields None for the supervisor of s: the child has exited with
\* status 0, the reader task has returned and the stream is drained.
StreamEnded(s) ==
    /\ s \in reader_done
    /\ child[s] = "down"
    /\ stream[s] = << >>

\* C34: once the stream of an active session has ended cleanly with the turn
\* count below max_turns, the session is eventually marked complete and its
\* supervisor has exited.
C34_CleanEofCompletes ==
    \A s \in OneSession :
        (/\ StreamEnded(s)
         /\ s \in active
         /\ sup[s] = "select"
         /\ turn_count[s] < max_turns[s])
            ~> (is_complete[s] /\ sup[s] = "exited")

\* C35: is_complete is set once, by a supervisor that leaves its loop with
\* that step, and never reset; from then on the session's buffer and its
\* turn_count do not change.
C35_CompletionFinal ==
    [][\A s \in SessionIds :
          /\ is_complete[s] =>
                /\ is_complete'[s]
                /\ sup[s] = "exited" /\ sup'[s] = "exited"
                /\ messages'[s] = messages[s]
                /\ turn_count'[s] = turn_count[s]
          /\ SupMaxTurns(s) \/ SupStreamError(s) =>
                ~is_complete[s] /\ is_complete'[s] /\ sup'[s] = "exited"]_vars

\* A session completed at max_turns while a message of its child was still
\* on the stream.
C35_Witness ==
    \E s \in SessionIds :
        /\ is_complete[s] /\ sup[s] = "exited"
        /\ turn_count[s] >= max_turns[s]
        /\ stream[s] # << >>
        /\ Head(stream[s]).ok

\* ------------------------------------------------- reads, lock by lock
\* The reads of an active session as the sequence of mutexes they take: the
\* active pool for the whole call, then the session's fields one by one.

\* What a step of a read leaves alone.
exceptRead == << registryVars, active, completed, term_ok, sessionVars,
                 channelVars, supVars, childVars, sweepVars, tconn, thandle,
                 next_id, readVars, clockVars, last_message_at, wireVars,
                 shutVars, closeVars, envVars, protoVars, chanVars,
                 workerVars, writeVars, appended, stored >>

\* output.rs get_output: the active pool, then the messages guard, which is
\* held until the response has been built.
OutputSnapshot(t, s) ==
    /\ pc[t] = "idle"
    /\ active_lock = NoTask
    /\ s \in active
    /\ MessagesFree(s)
    /\ active_lock' = t
    /\ messages_lock' = [messages_lock EXCEPT ![s] = t]
    /\ rd' = [rd EXCEPT ![t] = [NoRead EXCEPT !.snap_at = appended[s]]]
    /\ pc' = [pc EXCEPT ![t] = "out_turn"]
    /\ tsess' = [tsess EXCEPT ![t] = s]
    /\ Silent
    /\ UNCHANGED exceptRead

\* output.rs get_output: turn_count is read under the messages guard, the
\* response is built and both guards are dropped.
OutputTurn(t) ==
    /\ pc[t] = "out_turn"
    /\ rd' = [rd EXCEPT ![t].turn = turn_count[tsess[t]],
                        ![t].turn_at = stored[tsess[t]]]
    /\ messages_lock' = [messages_lock EXCEPT ![tsess[t]] = NoTask]
    /\ active_lock' = NoTask
    /\ pc' = [pc EXCEPT ![t] = "idle"]
    /\ Return(t, "get_output", tsess[t], 0, "Ok", turn_count[tsess[t]])
    /\ UNCHANGED << tsess, exceptRead >>

\* info.rs get_session_info: the active pool, then turn_count (its guard is a
\* temporary, dropped at the end of the statement).
InfoTurn(t, s) ==
    /\ pc[t] = "idle"
    /\ active_lock = NoTask
    /\ s \in active
    /\ active_lock' = t
    /\ rd' = [rd EXCEPT ![t] = [NoRead EXCEPT !.turn = turn_count[s],
                                             !.turn_at = stored[s]]]
    /\ pc' = [pc EXCEPT ![t] = "info_msgs"]
    /\ tsess' = [tsess EXCEPT ![t] = s]
    /\ Silent
    /\ UNCHANGED << messages_lock, exceptRead >>

\* info.rs get_session_info: the messages guard is taken after turn_count was
\* read; the response is built and the guards are dropped.
InfoSnapshot(t) ==
    /\ pc[t] = "info_msgs"
    /\ MessagesFree(tsess[t])
    /\ rd' = [rd EXCEPT ![t].snap_at = appended[tsess[t]]]
    /\ active_lock' = NoTask
    /\ pc' = [pc EXCEPT ![t] = "idle"]
    /\ Return(t, "get_session_info", tsess[t], 0, "Ok", rd[t].turn)
    /\ UNCHANGED << tsess, messages_lock, exceptRead >>

\* list.rs list_sessions: the active pool is locked and iterated.
ListBegin(t) ==
    /\ pc[t] = "idle"
    /\ active_lock = NoTask
    /\ active_lock' = t
    /\ rd' = [rd EXCEPT ![t] = [NoRead EXCEPT !.todo = active]]
    /\ pc' = [pc EXCEPT ![t] = "list_turn"]
    /\ Silent
    /\ UNCHANGED << tsess, messages_lock, exceptRead >>

\* list.rs list_sessions: the next session of the iteration (a HashMap's
\* order), its turn_count first.
ListTurn(t) ==
    /\ pc[t] = "list_turn"
    /\ \E s \in rd[t].todo :
        /\ rd' = [rd EXCEPT ![t] = [turn |-> turn_count[s], turn_at |-> stored[s],
                                    snap_at |-> -1, todo |-> rd[t].todo]]
        /\ tsess' = [tsess EXCEPT ![t] = s]
    /\ pc' = [pc EXCEPT ![t] = "list_msgs"]
    /\ Silent
    /\ UNCHANGED << active_lock, messages_lock, exceptRead >>

\* list.rs list_sessions: the session's messages, then its AgentInfo is pushed.
ListSnapshot(t) ==
    /\ pc[t] = "list_msgs"
    /\ MessagesFree(tsess[t])
    /\ rd' = [rd EXCEPT ![t].snap_at = appended[tsess[t]],
                        ![t].todo = @ \ {tsess[t]}]
    /\ pc' = [pc EXCEPT ![t] = "list_turn"]
    /\ Silent
    /\ UNCHANGED << tsess, active_lock, messages_lock, exceptRead >>

\* list.rs list_sessions: the iteration is over, the active guard is dropped.
ListReturn(t) ==
    /\ pc[t] = "list_turn"
    /\ rd[t].todo = {}
    /\ active_lock' = NoTask
    /\ pc' = [pc EXCEPT ![t] = "idle"]
    /\ Return(t, "list_sessions", NoSession, 0, "Ok", 0)
    /\ UNCHANGED << tsess, rd, messages_lock, exceptRead >>

\* A session whose child emits while a caller reads it lock by lock (the
\* active pool's mutex lets one read run at a time).
NextSnap ==
    \/ \E m \in 1..MaxMaxTurns : SpawnSession(1, m, OneSession)
    \/ \E s \in OneSession : ChildEmit(s)
    \/ \E s \in OneSession : SupMessage(s)
    \/ \E s \in OneSession : SupTurnCount(s)
    \/ \E s \in OneSession : SupMaxTurns(s)
    \/ \E s \in OneSession : OutputSnapshot(1, s)
    \/ OutputTurn(1)
    \/ \E s \in OneSession : InfoTurn(1, s)
    \/ InfoSnapshot(1)
    \/ ListBegin(1)
    \/ ListTurn(1)
    \/ ListSnapshot(1)
    \/ ListReturn(1)

SpecSnap == Init /\ [][NextSnap]_vars

\* C33: the supervisor pushes a Result before it stores its num_turns, and no
\* read of an active session (get_output, get_session_info, list_sessions)
\* holds a turn_count whose Result had not been pushed when the read locked
\* the buffer.
C33_TurnAfterResult ==
    /\ \A s \in SessionIds : stored[s] <= appended[s]
    /\ \A t \in Tasks :
          rd[t].turn_at >= 0 /\ rd[t].snap_at >= 0 =>
              rd[t].turn_at <= rd[t].snap_at

\* A get_output returns the turn_count of a Result that was in the buffer it
\* locked.
C33_Witness ==
    /\ ret.op = "get_output"
    /\ ret.n >= 1
    /\ rd[ret.task].turn_at = rd[ret.task].snap_at
    /\ turn_count[ret.sess] = ret.n
    /\ sup[ret.sess] # "turn"

\* ------------------------------------------------ terminate and the exit
\* A session that completes, fails or is terminated, by a caller who may find
\* the supervisor gone or see it go while the Shutdown command is queued.
NextTerm ==
    \/ \E m \in 1..MaxMaxTurns : SpawnSession(1, m, OneSession)
    \/ \E s \in OneSession : ChildEmit(s)
    \/ \E s \in OneSession : ChildFail(s)
    \/ \E s \in OneSession : SupShutdown(s)
    \/ \E s \in OneSession : SupMessage(s)
    \/ \E s \in OneSession : SupTurnCount(s)
    \/ \E s \in OneSession : SupMaxTurns(s)
    \/ \E s \in OneSession : SupStreamError(s)
    \/ \E t \in Tasks, s \in OneSession : TerminateSession(t, s)
    \/ \E t \in Tasks : TerminateFinish(t)

SpecTermFair ==
    /\ Init /\ [][NextTerm]_vars
    /\ \A t \in Tasks : WF_vars(TerminateFinish(t))
    /\ \A s \in OneSession : WF_vars(Supervisor(s))

\* C37: a terminate_session that has removed the session from the active pool
\* returns Ok with the session in the completed pool, whether the supervisor
\* answers the Shutdown command, had exited before, or exits with the command
\* still queued.
C37_TerminateReturns ==
    \A t \in Tasks :
        pc[t] \in {"term_wait", "term_snap"}
            ~> (/\ pc[t] = "idle"
                /\ ret.task = t /\ ret.op = "terminate" /\ ret.res = "Ok"
                /\ ret.sess \in DOMAIN completed /\ ret.sess \notin active)

\* The supervisor has completed the session and left its loop with the
\* caller's Shutdown command still queued: the caller's receiver sees the
\* sender dropped.
C37_Witness ==
    \E t \in Tasks :
        /\ pc[t] = "term_wait" /\ reply[t] = "dropped"
        /\ sup[tsess[t]] = "exited" /\ is_complete[tsess[t]]

\* ------------------------------------------------- spawn, step by step
\* What no step of spawn_session touches.
exceptSpawn == << registryVars, active_lock, completed, term_ok, messages,
                 turn_count, is_complete, command_q, reply, sup_turns, stream,
                 emitted, sweepVars, tconn, thandle, readVars, clockVars,
                 wireVars, shutVars, auxVars >>

\* A spawn that puts the session into the pool before the prompt is written.
PoolWithOrphan(s) == active \cup {s}

\* spawn.rs 85-88: `?` returns the error before the pool is touched.
PoolAfterFailure(s) == active

\* spawn.rs 62-85: a fresh id, then ClaudeSDKClient::new, which starts the
\* child or fails.
SpawnClient(t, ids, ok) ==
    /\ pc[t] = "idle"
    /\ next_id \in ids
    /\ next_id' = next_id + 1
    /\ IF ok
       THEN /\ child' = [child EXCEPT ![next_id] = "up"]
            /\ tsess' = [tsess EXCEPT ![t] = next_id]
            /\ pc' = [pc EXCEPT ![t] = "spawn_prompt"]
            /\ Silent
            /\ UNCHANGED active
       ELSE /\ Return(t, "spawn", next_id, 0, "Connection", 0)
            /\ active' = PoolAfterFailure(next_id)
            /\ UNCHANGED << child, tsess, pc >>
    /\ UNCHANGED << max_turns, command_open, sup, stdin, last_message_at,
                    exceptSpawn >>

\* spawn.rs 88: the initial prompt is written to the child, or the write
\* fails and the client is dropped.
SpawnPrompt(t, ok) ==
    /\ pc[t] = "spawn_prompt"
    /\ IF ok
       THEN /\ stdin' = [stdin EXCEPT ![tsess[t]] = 1]
            /\ pc' = [pc EXCEPT ![t] = "spawn_insert"]
            /\ Silent
            /\ UNCHANGED << child, tsess, active >>
       ELSE /\ child' = [child EXCEPT ![tsess[t]] = "down"]
            /\ active' = PoolAfterFailure(tsess[t])
            /\ Return(t, "spawn", tsess[t], 0, "Transport", 0)
            /\ pc' = [pc EXCEPT ![t] = "idle"]
            /\ tsess' = [tsess EXCEPT ![t] = NoSession]
            /\ stdin' = stdin
    /\ UNCHANGED << next_id, max_turns, command_open, sup, last_message_at,
                    exceptSpawn >>

\* spawn.rs 91-116: the command channel, the fresh fields, the insert into
\* the active pool under its mutex.
SpawnInsert(t, m) ==
    /\ pc[t] = "spawn_insert"
    /\ active_lock = NoTask
    /\ active' = active \cup {tsess[t]}
    /\ max_turns' = [max_turns EXCEPT ![tsess[t]] = m]
    /\ command_open' = [command_open EXCEPT ![tsess[t]] = TRUE]
    /\ last_message_at' = [last_message_at EXCEPT ![tsess[t]] = now]
    /\ pc' = [pc EXCEPT ![t] = "spawn_collect"]
    /\ Silent
    /\ UNCHANGED << next_id, tsess, child, stdin, sup, exceptSpawn >>

\* spawn.rs 119-127: spawn_message_collector starts the supervisor task.
SpawnCollector(t) ==
    /\ pc[t] = "spawn_collect"
    /\ sup' = [sup EXCEPT ![tsess[t]] = "select"]
    /\ pc' = [pc EXCEPT ![t] = "spawn_return"]
    /\ Silent
    /\ UNCHANGED << next_id, tsess, child, stdin, active, max_turns,
                    command_open, last_message_at, exceptSpawn >>

\* spawn.rs 129: Ok(session_id).
SpawnReturn(t) ==
    /\ pc[t] = "spawn_return"
    /\ Return(t, "spawn", tsess[t], 0, "Ok", 0)
    /\ pc' = [pc EXCEPT ![t] = "idle"]
    /\ tsess' = [tsess EXCEPT ![t] = NoSession]
    /\ UNCHANGED << next_id, child, stdin, active, sup, max_turns,
                    command_open, last_message_at, exceptSpawn >>

\* A caller spawns sessions whose client or first write may fail; the
\* children emit, the supervisors run, a second caller terminates.
NextSpawn ==
    \/ \E ok \in BOOLEAN : SpawnClient(1, TwoSessions, ok)
    \/ \E ok \in BOOLEAN : SpawnPrompt(1, ok)
    \/ \E m \in 1..MaxMaxTurns : SpawnInsert(1, m)
    \/ SpawnCollector(1)
    \/ SpawnReturn(1)
    \/ \E s \in TwoSessions : ChildAssistant(s)
    \/ \E s \in TwoSessions : SupMessage(s)
    \/ \E s \in TwoSessions : SupShutdown(s)
    \/ \E s \in TwoSessions : TerminateSession(2, s)
    \/ TerminateFinish(2)

SpecSpawn == Init /\ [][NextSpawn]_vars

\* C39: a spawn_session that fails (no client, or the initial prompt not
\* written) returns the error and none of its steps changes a pool or starts
\* a supervisor; one that succeeds has put its session into the active pool,
\* not complete, with turn_count 0 and an empty buffer, and only then started
\* the supervisor, before it returns the id.
C39_SpawnAllOrNothing ==
    [][\A t \in Tasks :
          /\ ret'.task = t /\ ret'.op = "spawn" /\ ret'.res # "Ok" =>
                /\ active' = active /\ completed' = completed /\ sup' = sup
                /\ ret'.sess \notin active'
                /\ ret'.sess \notin DOMAIN completed'
                /\ sup'[ret'.sess] = "none"
                /\ pc'[t] = "idle"
          /\ pc'[t] \in {"spawn_prompt", "spawn_insert"} /\ pc'[t] # pc[t] =>
                /\ active' = active /\ completed' = completed /\ sup' = sup
                /\ tsess'[t] \notin active'
          /\ pc[t] = "spawn_insert" /\ pc'[t] # pc[t] =>
                /\ tsess[t] \notin active /\ tsess[t] \in active'
                /\ ~is_complete'[tsess[t]]
                /\ turn_count'[tsess[t]] = 0
                /\ messages'[tsess[t]] = << >>
                /\ sup'[tsess[t]] = "none"
          /\ ret'.task = t /\ ret'.op = "spawn" /\ ret'.res = "Ok" =>
                /\ pc[t] = "spawn_return"
                /\ ret'.sess = tsess[t]
                /\ sup[tsess[t]] # "none"]_vars

\* A spawn has failed at its first write and a later one has succeeded: the
\* second id alone is in the active pool.
C39_Witness ==
    /\ ret.op = "spawn" /\ ret.res = "Ok" /\ ret.sess = 2
    /\ active = {2} /\ completed = << >>
    /\ child[1] = "down" /\ sup[1] = "none"
    /\ ~is_complete[2] /\ turn_count[2] = 0 /\ messages[2] = << >>

\* ------------------------------------------------------ send and the exit
\* A session that completes, fails or runs on while a caller sends to it.
NextSend ==
    \/ \E m \in 1..MaxMaxTurns : SpawnSession(1, m, OneSession)
    \/ \E s \in OneSession : ChildEmit(s)
    \/ \E s \in OneSession : ChildFail(s)
    \/ \E s \in OneSession : SupSendMessage(s)
    \/ \E s \in OneSession : SupMessage(s)
    \/ \E s \in OneSession : SupTurnCount(s)
    \/ \E s \in OneSession : SupMaxTurns(s)
    \/ \E s \in OneSession : SupStreamError(s)
    \/ \E t \in Tasks, s \in OneSession : SendMessage(t, s)
    \/ \E t \in Tasks : SendReply(t)

SpecSendFair ==
    /\ Init /\ [][NextSend]_vars
    /\ \A t \in Tasks : WF_vars(SendReply(t))
    /\ \A s \in OneSession : WF_vars(Supervisor(s))

\* C38: a posted send_message returns; Ok is returned only for a command the
\* supervisor answered after writing the prompt to the child, and stdin grows
\* by that write alone; a supervisor that leaves its loop with the command
\* queued, or had left it before the call, makes the call SessionComplete.
C38_SendAnswered ==
    /\ \A t \in Tasks :
          pc[t] = "send_wait"
              ~> (/\ pc[t] = "idle" /\ ret.task = t /\ ret.op = "send"
                  /\ ret.res \in {"Ok", "Transport", "SessionComplete"})
    /\ [][\A t \in Tasks :
            /\ SendReply(t) =>
                  /\ ret'.res = "Ok" => reply[t] = "ok"
                  /\ reply[t] = "dropped" => ret'.res = "SessionComplete"
            /\ pc[t] = "send_wait" /\ reply[t] = "none" /\ reply'[t] = "ok" =>
                  stdin'[tsess[t]] = stdin[tsess[t]] + 1
            /\ pc[t] = "send_wait" /\ reply[t] = "none" /\ reply'[t] \notin {"none", "ok"} =>
                  stdin'[tsess[t]] = stdin[tsess[t]]
            /\ pc[t] = "send_wait" /\ reply[t] = "none"
               /\ sup[tsess[t]] # "exited" /\ sup'[tsess[t]] = "exited" =>
                  reply'[t] = "dropped"
            /\ \A s \in SessionIds :
                  SendMessage(t, s) /\ s \in active /\ sup[s] = "exited" =>
                      /\ ret'.res = "SessionComplete" /\ pc'[t] = "idle"
                      /\ stdin' = stdin /\ command_q' = command_q]_vars

\* The supervisor completed the session with the caller's SendMessage still
\* queued, and the caller has returned SessionComplete.
C38_Witness ==
    \E s \in SessionIds :
        /\ ret.op = "send" /\ ret.sess = s /\ ret.res = "SessionComplete"
        /\ ret.n = 1
        /\ sup[s] = "exited" /\ is_complete[s]

\* ------------------------------------------------------ every lock at once
\* Task 1 spawns a session, registers it and sweeps its connection (which
\* terminates the session); task 2 sends, reads lock by lock and shuts the
\* manager down (which terminates the session too); the child emits.
NextLock ==
    \/ SpawnAgent(1, 1, 0, MaxMaxTurns, OneSession)
    \/ RegisterSession(1)
    \/ CleanupBegin(1, 1)
    \/ CleanupStep(1)
    \/ CleanupReturn(1)
    \/ \E s \in OneSession : SendMessage(2, s)
    \/ SendReply(2)
    \/ \E t \in Tasks : TerminateFinish(t)
    \/ \E s \in OneSession : OutputSnapshot(2, s)
    \/ OutputTurn(2)
    \/ \E s \in OneSession : InfoTurn(2, s)
    \/ InfoSnapshot(2)
    \/ ShutdownBegin(2)
    \/ ShutdownStep(2)
    \/ ShutdownReturn(2)
    \/ \E s \in OneSession : ChildEmit(s)
    \/ \E s \in OneSession : SupSendMessage(s)
    \/ \E s \in OneSession : SupShutdown(s)
    \/ \E s \in OneSession : SupMessage(s)
    \/ \E s \in OneSession : SupTurnCount(s)
    \/ \E s \in OneSession : SupMaxTurns(s)


\* The step an operation of task t in progress takes next.
TaskStep(t) ==
    \/ RegisterSession(t)
    \/ CleanupStep(t)
    \/ CleanupReturn(t)
    \/ SendReply(t)
    \/ TerminateFinish(t)
    \/ OutputTurn(t)
    \/ InfoSnapshot(t)
    \/ ListTurn(t)
    \/ ListSnapshot(t)
    \/ ListReturn(t)
    \/ ShutdownStep(t)
    \/ ShutdownReturn(t)

SpecLock == Init /\ [][NextLock]_vars

\* The task that holds the mutex the next step of task t asks for (NoTask: it
\* asks for none).
WaitsOnTask(t) ==
    IF pc[t] = "sweep" /\ to_remove[t] # {} THEN active_lock
    ELSE IF pc[t] = "shutdown" /\ session_ids[t] # {} THEN active_lock
    ELSE IF pc[t] = "register" THEN registry_lock
    ELSE IF pc[t] \in {"info_msgs", "list_msgs"} THEN messages_lock[tsess[t]]
    ELSE NoTask

\* Task t awaits the one-shot reply of a supervisor.
WaitsOnSupervisor(t) ==
    pc[t] \in {"send_wait", "term_wait"} /\ reply[t] = "none"

\* Task t can take its next step, or the supervisor it awaits can take one.
Advances(t) ==
    \/ ENABLED TaskStep(t)
    \/ WaitsOnSupervisor(t) /\ ENABLED Supervisor(tsess[t])

Next ==
    \/ \E t \in Tasks, m \in 1..MaxMaxTurns : SpawnSession(t, m, OneSession)
    \/ \E t \in Tasks, s \in SessionIds : SendMessage(t, s)
    \/ \E t \in Tasks : SendReply(t)
    \/ \E t \in Tasks, s \in SessionIds : TerminateSession(t, s)
    \/ \E t \in Tasks : TerminateFinish(t)
    \/ \E s \in SessionIds : ChildEmit(s)
    \/ \E s \in SessionIds : ChildFail(s)
    \/ \E s \in SessionIds : Supervisor(s)

Spec == Init /\ [][Next]_vars

\* The same with callers reading the sessions.
NextRead ==
    \/ Next
    \/ \E s \in SessionIds : Read(s)

SpecRead == Init /\ [][NextRead]_vars

\* The connection registry over the manager: SPAWN registers, a dropped
\* connection is swept, sessions are also terminated directly.
NextReg ==
    \/ \E t \in Tasks, c \in Conns, h \in Handles :
          SpawnAgent(t, c, h, 1, SessionIds)
    \/ \E t \in Tasks : RegisterSession(t)
    \/ \E t \in Tasks, s \in SessionIds : TerminateSession(t, s)
    \/ \E t \in Tasks : TerminateFinish(t)
    \/ \E t \in Tasks, c \in Conns : CleanupBegin(t, c)
    \/ \E t \in Tasks : CleanupStep(t)
    \/ \E t \in Tasks : CleanupReturn(t)
    \/ \E s \in SessionIds : SupShutdown(s)

SpecReg == Init /\ [][NextReg]_vars

\* One session whose child keeps emitting until the ring buffer has wrapped;
\* the session may be terminated at any point.
NextRing ==
    \/ \E m \in 1..MaxMaxTurns : SpawnSession(1, m, OneSession)
    \/ \E s \in OneSession : ChildScript(s)
    \/ \E s \in OneSession : SupMessage(s)
    \/ \E s \in OneSession : SupTurnCount(s)
    \/ \E s \in OneSession : SupMaxTurns(s)
    \/ \E s \in OneSession : SupShutdown(s)
    \/ \E s \in OneSession : TerminateSession(1, s)
    \/ TerminateFinish(1)

SpecRing == Init /\ [][NextRing]_vars

\* One session filling its buffer, terminated at any point, and read page by
\* page with every offset and length.
NextPage ==
    \/ \E m \in 1..MaxMaxTurns : SpawnSession(1, m, OneSession)
    \/ \E s \in OneSession : ChildAssistant(s)
    \/ \E s \in OneSession : SupMessage(s)
    \/ \E s \in OneSession : SupShutdown(s)
    \/ \E s \in OneSession : TerminateSession(1, s)
    \/ TerminateFinish(1)
    \/ \E s \in OneSession, offset \in Offsets, length \in Lengths, build \in Builds :
          GetOutputCall(1, s, offset, length, build)
    \/ \E s \in OneSession : GetSessionInfoCall(1, s)
    \/ \E s \in OneSession : IsWorkingCall(1, s)
    \/ \E b \in BOOLEAN : ListSessionsCall(1, b)
    \/ Tick(WORKING_THRESHOLD_MS, MaxNow)
    \/ PageDone

SpecPage == Init /\ [][NextPage]_vars

\* One session under the clock: it works, falls idle, completes or is
\* terminated, and is read by all four read operations.
NextWork ==
    \/ \E m \in 1..MaxMaxTurns : SpawnSession(1, m, OneSession)
    \/ \E s \in OneSession : ChildEmit(s)
    \/ \E s \in OneSession : SupMessage(s)
    \/ \E s \in OneSession : SupTurnCount(s)
    \/ \E s \in OneSession : SupMaxTurns(s)
    \/ \E s \in OneSession : SupShutdown(s)
    \/ \E s \in OneSession : TerminateSession(1, s)
    \/ TerminateFinish(1)
    \/ \E d \in WorkSteps : Tick(d, MaxNow)
    \/ \E s \in OneSession, offset \in {-1, 0} :
          GetOutputCall(1, s, offset, MaxLength, "unchecked")
    \/ \E s \in OneSession : GetSessionInfoCall(1, s)
    \/ \E s \in OneSession : IsWorkingCall(1, s)
    \/ \E b \in BOOLEAN : ListSessionsCall(1, b)
    \/ PageDone

SpecWork == Init /\ [][NextWork]_vars


\* ---------------------------------------------------------------- claims

\* The step at which task t returns from cleanup_connection.
SweepReturns(t) == pc[t] \in {"sweep", "sweep_abort"} /\ pc'[t] = "idle"

\* C1: when cleanup_connection(c) returns, the registry holds no key of c,
\* terminate_session was called exactly once for every session id registered
\* under c when the sweep started (a failed call does not stop the sweep), and
\* the returned count is the number of keys removed.
C1_CleanupSweepsConnection ==
    [][\A t \in Tasks :
          SweepReturns(t) =>
            /\ \A k \in Keys : k[1] = tconn[t] => agents'[k] = NoSession
            /\ \A s \in SessionIds :
                  attempted[t][s].calls =
                      Cardinality({e \in sweep_start[t] : e[2] = s})
            /\ ret'.op = "cleanup" /\ ret'.conn = tconn[t]
            /\ ret'.n = Cardinality(sweep_start[t])]_vars

\* C1 witness: a sweep of two entries is about to return, one of its
\* terminate_session calls failed and another one succeeded.
C1_Witness ==
    \E t \in Tasks :
        /\ pc[t] = "sweep" /\ to_remove[t] = {}
        /\ Cardinality(sweep_start[t]) = Cardinality(Handles)
        /\ \E s1, s2 \in SessionIds :
              /\ s1 # s2
              /\ attempted[t][s1].failed = 1
              /\ attempted[t][s2].calls = 1 /\ attempted[t][s2].failed = 0
              /\ s2 \in DOMAIN completed

\* C2: after cleanup_connection(c) returns, no session that was ever
\* registered under c is in the active pool with a running supervisor.
C2_NoSessionOutlivesConnection ==
    [][\A t \in Tasks :
          SweepReturns(t) =>
            \A s \in ever_reg[tconn[t]] :
                ~(s \in active' /\ sup'[s] = "select")]_vars

\* C3: the steps of cleanup_connection(c1) change nothing of another
\* connection c2: its registry entries, the pool membership and completion
\* state of its sessions, and the result of list_all(c2).
C3_CleanupLeavesOthers ==
    [][\A t \in Tasks :
          /\ registry_lock' = t \/ registry_lock = t
          /\ pc'[t] # pc[t] \/ to_remove'[t] # to_remove[t]
          =>
            \A c2 \in Conns \ {IF registry_lock = t THEN tconn[t] ELSE tconn'[t]} :
                /\ EntriesOf(c2)' = EntriesOf(c2)
                /\ ListAll(c2)' = ListAll(c2)
                /\ \A e \in EntriesOf(c2) :
                      /\ (e[2] \in active') = (e[2] \in active)
                      /\ (e[2] \in DOMAIN completed') = (e[2] \in DOMAIN completed)
                      /\ is_complete'[e[2]] = is_complete[e[2]]
                      /\ sup'[e[2]] = sup[e[2]]]_vars

\* C3 witness: a sweep of connection 1 has terminated a session registered
\* under handle 0 while connection 2 holds a live session under handle 0 too.
C3_Witness ==
    \E t \in Tasks :
        /\ registry_lock = t /\ tconn[t] = 1 /\ pc[t] = "sweep"
        /\ \E s1, s2 \in SessionIds :
              /\ << 0, s1 >> \in sweep_start[t]
              /\ attempted[t][s1].calls = 1 /\ s1 \in DOMAIN completed
              /\ agents[<< 2, 0 >>] = s2
              /\ s2 \in active /\ sup[s2] = "select"


C9_TerminateSnapshots ==
    [][/\ \A t \in Tasks :
            pc[t] \in {"term_wait", "term_snap"} /\ pc'[t] # pc[t]
            => LET s == tsess[t] IN
               /\ ret'.op = "terminate" /\ ret'.sess = s /\ ret'.res = "Ok"
               /\ s \notin active'
               /\ s \in DOMAIN completed'
               /\ completed'[s].final_turn_count = turn_count[s]
               /\ completed'[s].messages = messages[s]
       /\ \A s \in DOMAIN completed :
            /\ s \in DOMAIN completed'
            /\ completed'[s] = completed[s]
            /\ GetOutput(s)'.output = completed[s].messages
            /\ GetOutput(s)'.turn_count = completed[s].final_turn_count]_vars

\* C9 witness: a session with messages in its buffer and a stored turn count
\* has been terminated and sits in the completed pool.
C9_Witness ==
    \E s \in DOMAIN completed :
        /\ ret.op = "terminate" /\ ret.sess = s /\ ret.res = "Ok"
        /\ completed[s].final_turn_count = 1
        /\ Len(completed[s].messages) = MaxEmit

\* C10: terminate_session on a session that is not in the active pool returns
\* SessionNotFound and changes neither pool; of all the calls made for one
\* session at most one returns Ok, and it is the one that made the session's
\* single entry of the completed pool.
C10_TerminateOnce ==
    [][/\ \A t \in Tasks, s \in SessionIds :
            TerminateSession(t, s) /\ s \notin active
            => /\ ret' = [task |-> t, op |-> "terminate", sess |-> s, conn |-> 0,
                          res |-> "SessionNotFound", n |-> 0]
               /\ active' = active
               /\ completed' = completed
               /\ pc'[t] = "idle"
       /\ \A s \in SessionIds :
            /\ term_ok'[s] <= 1
            /\ term_ok'[s] = 1 <=> s \in DOMAIN completed'
            /\ Cardinality({t \in Tasks : pc'[t] \in {"term_wait", "term_snap"}
                                          /\ tsess'[t] = s}) <= 1]_vars

\* C10 witness: two terminate_session calls on the same session overlapped;
\* one is still waiting for the supervisor, the other has just returned
\* SessionNotFound.
C10_Witness ==
    \E t1, t2 \in Tasks, s \in SessionIds :
        /\ t1 # t2
        /\ pc[t1] = "term_wait" /\ tsess[t1] = s
        /\ ret.task = t2 /\ ret.op = "terminate" /\ ret.sess = s
        /\ ret.res = "SessionNotFound"


\* C6: in every reachable state the buffer of every session, in the active
\* pool or snapshotted in the completed pool, holds at most BUFFER_SIZE
\* messages.
C6_BufferBounded ==
    \A s \in SessionIds :
        /\ Len(messages[s]) <= BUFFER_SIZE
        /\ s \in DOMAIN completed => Len(completed[s].messages) <= BUFFER_SIZE

\* C6 witness: the buffer is full and its oldest message has been evicted by
\* the push of message BUFFER_SIZE + 1.
C6_Witness ==
    \E s \in SessionIds :
        /\ Len(messages[s]) = BUFFER_SIZE
        /\ messages[s][1].content.seq = 2
        /\ messages[s][BUFFER_SIZE].content.seq = BUFFER_SIZE + 1

\* C7: after the supervisor has taken n typed messages from the child, the
\* buffer holds exactly the last min(n, BUFFER_SIZE) of them, serialized, in
\* emission order: nothing reordered, duplicated or dropped but the head.
C7_RingKeepsLastB ==
    \A s \in SessionIds :
        LET n == emitted[s] - Len(stream[s])
            k == IF n < BUFFER_SIZE THEN n ELSE BUFFER_SIZE
        IN  messages[s] = [i \in 1..k |-> serialize_message(ScriptFrame(n - k + i))]

\* C7 witness: all RingEmit messages of the child were taken, the buffer is
\* full and starts at message RingEmit - BUFFER_SIZE + 1, and the session was
\* then terminated with this buffer as its snapshot.
C7_Witness ==
    \E s \in DOMAIN completed :
        /\ emitted[s] = RingEmit /\ stream[s] = << >>
        /\ Len(completed[s].messages) = BUFFER_SIZE
        /\ completed[s].messages[1].content.seq = RingEmit - BUFFER_SIZE + 1

\* C8: the turn count seen by successive reads of a session never decreases.
C8_TurnCountMonotone ==
    [][\A s \in SessionIds : observed'[s] >= observed[s]]_vars


\* C11: get_output(s, offset, length) on a buffer of size total returns, for
\* offset >= 0, the entries at positions offset .. min(offset + length, total) - 1
\* with has_more = (offset + returned < total), and for offset < 0 the last
\* min(|offset|, total) entries with has_more = false; total_messages = total
\* and messages_returned = the number of entries returned.
C11_Pagination ==
    [][ret'.op = "get_output" /\ GetOutput(ret'.sess).found =>
         LET buf == GetOutput(ret'.sess).output
             total == Len(buf)
             off == page'.offset
             first == IF off >= 0 THEN Min2(off, total)
                      ELSE total - Min2(-off, total)
             last == IF off >= 0 THEN Min2(off + page'.length, total) ELSE total
         IN  /\ page'.outcome = "Ok"
             /\ page'.output = [i \in 1..(last - first) |-> buf[first + i]]
             /\ page'.total_messages = total
             /\ page'.messages_returned = last - first
             /\ page'.has_more = (off >= 0 /\ off + (last - first) < total)]_vars


\* The retention path: one session that is spawned, fails or is terminated,
\* with the clocks and the cleanup task.
NextGc ==
    \/ \E m \in 1..MaxMaxTurns : SpawnSession(1, m, OneSession)
    \/ \E s \in OneSession : ChildFail(s)
    \/ \E s \in OneSession : SupShutdown(s)
    \/ \E s \in OneSession : SupStreamError(s)
    \/ \E s \in OneSession : TerminateSession(1, s)
    \/ TerminateFinish(1)
    \/ Tick(COMPLETED_RETENTION_MS, MaxGcNow)
    \/ ClockStep(COMPLETED_RETENTION_MS)
    \/ GcRun

SpecGc == Init /\ [][NextGc]_vars

\* The same with time passing and the cleanup task scheduled.
SpecGcFair ==
    /\ Init /\ [][NextGc]_vars
    /\ WF_vars(Tick(COMPLETED_RETENTION_MS, MaxGcNow))
    /\ WF_vars(GcRun)


\* The read path: one session with its child, the transport reader, the
\* message reader and the supervisor, and a caller that sends and terminates.
NextWire ==
    \/ \E m \in 1..MaxMaxTurns : SpawnSession(1, m, OneSession)
    \/ \E s \in OneSession : ChildLine(s)
    \/ \E s \in OneSession, kind \in {"io", "timeout"} : TransportError(s, kind)
    \/ \E s \in OneSession, code \in {0, 1} : ChildExit(s, code)
    \/ \E s \in OneSession : MessageReader(s)
    \/ \E s \in OneSession : SupSendMessage(s)
    \/ \E s \in OneSession : SupShutdown(s)
    \/ \E s \in OneSession : SupMessage(s)
    \/ \E s \in OneSession : SupStreamError(s)
    \/ \E s \in OneSession : SendMessage(1, s)
    \/ SendReply(1)
    \/ \E s \in OneSession : TerminateSession(1, s)
    \/ TerminateFinish(1)

SpecWire == Init /\ [][NextWire]_vars


\* A session left to itself: it runs until a Result reaches max_turns or the
\* stream fails, a caller may terminate it, time passes and the cleanup task
\* is scheduled.
NextSelf ==
    \/ \E m \in 1..MaxMaxTurns : SpawnSession(1, m, OneSession)
    \/ \E s \in OneSession : ChildEmit(s)
    \/ \E s \in OneSession : ChildFail(s)
    \/ \E s \in OneSession : SupShutdown(s)
    \/ \E s \in OneSession : SupMessage(s)
    \/ \E s \in OneSession : SupTurnCount(s)
    \/ \E s \in OneSession : SupMaxTurns(s)
    \/ \E s \in OneSession : SupStreamError(s)
    \/ \E s \in OneSession : TerminateSession(1, s)
    \/ TerminateFinish(1)
    \/ Tick(COMPLETED_RETENTION_MS, MaxGcNow)
    \/ GcRun

SpecSelfFair ==
    /\ Init /\ [][NextSelf]_vars
    /\ WF_vars(Tick(COMPLETED_RETENTION_MS, MaxGcNow))
    /\ WF_vars(GcRun)
    /\ \A s \in OneSession :
          WF_vars(SupMessage(s) \/ SupTurnCount(s) \/ SupMaxTurns(s)
                  \/ SupStreamError(s) \/ SupShutdown(s))


\* Shutdown of the manager: task 1 spawns and shuts down, task 2 terminates
\* sessions on its own; children may fail.
NextShut ==
    \/ \E m \in 1..MaxMaxTurns : SpawnSession(1, m, TwoSessions)
    \/ \E s \in TwoSessions : ChildFail(s)
    \/ \E s \in TwoSessions : SupShutdown(s)
    \/ \E s \in TwoSessions : SupStreamError(s)
    \/ \E s \in TwoSessions : TerminateSession(2, s)
    \/ \E t \in Tasks : TerminateFinish(t)
    \/ ShutdownBegin(1)
    \/ ShutdownStep(1)
    \/ ShutdownReturn(1)

SpecShut == Init /\ [][NextShut]_vars


\* Shutdown and the cleanup task: one session, a caller that spawns,
\* terminates, shuts the manager down and finally drops it, with time passing.
NextShutGc ==
    \/ \E m \in 1..MaxMaxTurns : SpawnSession(1, m, OneSession)
    \/ \E s \in OneSession : SupShutdown(s)
    \/ \E s \in OneSession : TerminateSession(1, s)
    \/ TerminateFinish(1)
    \/ ShutdownBegin(1)
    \/ ShutdownStep(1)
    \/ ShutdownReturn(1)
    \/ DropManager
    \/ Tick(COMPLETED_RETENTION_MS, MaxGcNow)
    \/ GcRun

SpecShutGc == Init /\ [][NextShutGc]_vars


\* One transport: connect, read_messages, close (twice), drop, with a child
\* that may exit on its own or not.
NextClose ==
    \/ \E mode \in {"stream", "string"} : Connect(mode)
    \/ ReadMessages
    \/ ProcExit
    \/ CloseBegin
    \/ CloseExited
    \/ CloseWaitError
    \/ CloseTimeout
    \/ TransportDrop
    \/ Tick(CLOSE_TIMEOUT_MS, MaxCloseNow)

SpecClose == Init /\ [][NextClose]_vars

\* The environment of the child: the parent's variables, the user's
\* overrides and the working directory in any combination, then the connect.
NextEnv ==
    \/ \E k \in EnvNames : ParentSetenv(k)
    \/ \E k \in EnvNames : OptionEnv(k)
    \/ OptionCwd
    \/ \E mode \in {"stream", "string"} : Connect(mode)

SpecEnv == Init /\ [][NextEnv]_vars

\* The registry over a manager whose cleanup task runs: one connection
\* spawns and registers a session, which is terminated directly, by the sweep
\* of the connection or by shutdown, and evicted once retained long enough.
NextRegGc ==
    \/ \E h \in Handles : SpawnAgent(1, 1, h, 1, OneSession)
    \/ RegisterSession(1)
    \/ \E s \in OneSession : SupShutdown(s)
    \/ \E s \in OneSession : TerminateSession(1, s)
    \/ TerminateFinish(1)
    \/ CleanupBegin(1, 1)
    \/ CleanupStep(1)
    \/ CleanupReturn(1)
    \/ ShutdownBegin(1)
    \/ ShutdownStep(1)
    \/ ShutdownReturn(1)
    \/ Tick(COMPLETED_RETENTION_MS, MaxGcNow)
    \/ GcRun

SpecRegGc == Init /\ [][NextRegGc]_vars

\* One session that one caller terminates while another caller reads it.
NextConc ==
    \/ \E m \in 1..MaxMaxTurns : SpawnSession(1, m, OneSession)
    \/ \E s \in OneSession : ChildAssistant(s)
    \/ \E s \in OneSession : SupMessage(s)
    \/ \E s \in OneSession : SupShutdown(s)
    \/ \E s \in OneSession : TerminateSession(1, s)
    \/ TerminateFinish(1)
    \/ \E s \in OneSession, offset \in {-1, 0} :
          GetOutputCall(2, s, offset, MaxLength, "unchecked")
    \/ \E s \in OneSession : GetSessionInfoCall(2, s)
    \/ PageDone

SpecConc == Init /\ [][NextConc]_vars

\* One client with both managers configured: the CLI's callback frames reach
\* the workers, whose callbacks succeed or fail in any order.
NextHook ==
    \/ \E hooks \in BOOLEAN, perms \in BOOLEAN : ClientChannels(1, hooks, perms)
    \/ \E id \in RequestNumbers : HandleHook(1, id)
    \/ \E id \in RequestNumbers : HandlePermission(1, id)
    \/ HookRecv(1)
    \/ HookCallbackOk(1)
    \/ HookCallbackErr(1)
    \/ HookRespond(1)
    \/ PermissionRecv(1)
    \/ PermissionCallbackOk(1)
    \/ PermissionCallbackErr(1)
    \/ PermissionRespond(1)
    \/ ControlWrite(1)

\* The runtime schedules a worker that can take a step, and a callback that
\* was invoked returns.
SpecHookFair ==
    /\ Init /\ [][NextHook]_vars
    /\ WF_vars(HookRecv(1))
    /\ WF_vars(HookCallbackOk(1) \/ HookCallbackErr(1))
    /\ WF_vars(HookRespond(1))
    /\ WF_vars(PermissionRecv(1))
    /\ WF_vars(PermissionCallbackOk(1) \/ PermissionCallbackErr(1))
    /\ WF_vars(PermissionRespond(1))

\* One client: interrupts queued for the writer task while the owner of the
\* client sends user frames directly.
NextWrite ==
    \/ Interrupt(1)
    \/ WriterTake
    \/ WriterLock
    \/ WriterWrite
    \/ WriterFlush
    \/ WriterFail
    \/ SendBegin
    \/ SendLock
    \/ SendWrite
    \/ SendFlush
    \/ SendFail

SpecWrite == Init /\ [][NextWrite]_vars

\* Two protocol handlers of one process hand out ids and create requests,
\* in any interleaving.
NextIds ==
    \E h \in Handlers :
        \/ NextId(h)
        \/ \E kind \in RequestKinds : CreateRequest(h, kind)

SpecIds == Init /\ [][NextIds]_vars

\* One protocol handler: its requests, the handshake and the responses of
\* the CLI, in any interleaving.
NextProto ==
    \/ \E kind \in RequestKinds : CreateRequest(1, kind)
    \/ \E id \in RequestNumbers : SendRequest(1, id)
    \/ \E id \in RequestNumbers : WaiterDrop(1, id)
    \/ \E v \in Versions : HandleInitResponse(1, v)
    \/ \E value \in BOOLEAN : SetInitialized(1, value)
    \/ \E kind \in {"success", "error"}, id \in RequestNumbers : HandleResponse(1, kind, id)
    \/ \E id \in RequestNumbers : HandleHook(1, id)
    \/ \E id \in RequestNumbers : HandlePermission(1, id)

SpecProto == Init /\ [][NextProto]_vars


\* The read operations of the manager.
ReadOps == {"get_output", "get_session_info", "list_sessions", "is_working"}

C15_WorkingRule ==
    [][LET Rule(s) == /\ s \in active
                      /\ ~is_complete[s]
                      /\ now - last_message_at[s] < 2000
       IN  /\ ret'.op \in {"get_output", "get_session_info", "is_working"}
              /\ page'.outcome = "Ok" => page'.working = Rule(ret'.sess)
           /\ ret'.op = "list_sessions"
              => \A s \in DOMAIN page'.agents : page'.agents[s].working = Rule(s)]_vars

\* C15 witness: a read of an incomplete session of the active pool has just
\* reported not working exactly 2000 ms after the session's last activity.
C15_Witness ==
    /\ ret.op \in {"get_output", "get_session_info", "is_working"}
    /\ ret.sess \in active /\ ~is_complete[ret.sess]
    /\ now - last_message_at[ret.sess] = 2000
    /\ page.outcome = "Ok" /\ ~page.working


\* C13: after each run of the cleanup task no completed session whose
\* completed_at is 60 000 ms or more in the past remains in the completed
\* pool, and, with time passing and the task scheduled, every session placed
\* in the completed pool is eventually removed from it (stated for sessions
\* completed early enough for three more intervals to fit in the run).
C13_GcEvictsOld ==
    /\ [][ret'.op = "gc" =>
            \A s \in DOMAIN completed' :
                utc' - completed'[s].completed_at < 60000]_vars
    /\ \A s \in OneSession :
          (s \in DOMAIN completed /\ now + 3 * 60000 <= MaxGcNow)
             ~> (s \notin DOMAIN completed)

\* C13 witness: the cleanup task has just run and has removed the terminated
\* session from the completed pool.
C13_Witness ==
    /\ ret.op = "gc"
    /\ term_ok[1] = 1 /\ pc[1] = "idle"
    /\ 1 \notin active /\ 1 \notin DOMAIN completed

\* C14: a run of the cleanup task evicts no completed session whose age
\* (wall clock now - completed_at, signed) is below 60 000 ms, a wall clock
\* reading earlier than completed_at included.
C14_GcKeepsYoung ==
    [][ret'.op = "gc" =>
         \A s \in DOMAIN completed :
             utc - completed[s].completed_at < 60000 => s \in DOMAIN completed']_vars


\* C16: when the supervisor takes a per-frame decode error from the message
\* stream, the session is not closed: is_complete is not set and the
\* supervisor stays in its loop, where later frames are appended.
C16_DecodeErrorKeepsSession ==
    [][\A s \in SessionIds :
         /\ sup[s] = "select" /\ stream[s] # << >>
         /\ Head(stream[s]) = StreamErrOf("parse")
         /\ stream'[s] = Tail(stream[s])
         => is_complete'[s] = is_complete[s] /\ sup'[s] = "select"]_vars

\* C17: a frame that takes the accumulator over max_buffer_size clears the
\* accumulator and surfaces exactly one decode error, and the stream goes on:
\* the message reader keeps reading after that error and the supervisor that
\* takes it stays in its loop, so a later valid frame reaches next_message
\* and the session buffer.
C17_OverflowKeepsStream ==
    [][\A s \in SessionIds :
         /\ (Len(wire'[s]) > Len(wire[s])
             /\ wire'[s][Len(wire'[s])] = WireErr("overflow"))
            => /\ json_buffer'[s] = 0
               /\ wire'[s] = Append(wire[s], WireErr("overflow"))
         /\ (wire[s] # << >> /\ Head(wire[s]) = WireErr("overflow")
             /\ wire'[s] = Tail(wire[s]))
            => s \notin reader_done'
         /\ (sup[s] = "select" /\ stream[s] # << >>
             /\ Head(stream[s]) = StreamErrOf("overflow")
             /\ stream'[s] = Tail(stream[s]))
            => is_complete'[s] = is_complete[s] /\ sup'[s] = "select"]_vars

\* C18 as stated: an I/O error, a read timeout or a nonzero exit of the child
\* on the read stream marks the session complete and ends its supervisor, and
\* every later send_message returns SessionComplete.
C18_StreamErrorCloses_AnyPool ==
    [][\A s \in SessionIds :
         /\ (sup[s] = "select" /\ stream[s] # << >>
             /\ Head(stream[s]) \in {StreamErrOf(k) : k \in {"io", "timeout", "process"}}
             /\ stream'[s] = Tail(stream[s]))
            => is_complete'[s] /\ sup'[s] = "exited"
         /\ is_complete[s] => is_complete'[s]
         /\ (is_complete[s] /\ SendMessage(1, s))
            => ret'.res = "SessionComplete" /\ command_q' = command_q]_vars

\* C18 amended: an I/O error, a read timeout or a nonzero exit of the child
\* on the read stream marks the session complete and ends its supervisor;
\* every later send_message fails: with SessionComplete while the session is
\* in the active pool, with SessionNotFound once it has been terminated.
C18_StreamErrorCloses ==
    [][\A s \in SessionIds :
         /\ (sup[s] = "select" /\ stream[s] # << >>
             /\ Head(stream[s]) \in {StreamErrOf(k) : k \in {"io", "timeout", "process"}}
             /\ stream'[s] = Tail(stream[s]))
            => is_complete'[s] /\ sup'[s] = "exited"
         /\ is_complete[s] => is_complete'[s]
         /\ (is_complete[s] /\ SendMessage(1, s))
            => /\ ret'.res = (IF s \in active THEN "SessionComplete"
                              ELSE "SessionNotFound")
               /\ command_q' = command_q]_vars

\* C18 witness: the read of the child's stdout failed before any line came,
\* the supervisor took the error and stopped, and the send_message that
\* followed was refused with SessionComplete.
C18_Witness ==
    /\ 1 \in active /\ is_complete[1] /\ sup[1] = "exited"
    /\ 1 \in transport_done /\ child[1] = "up" /\ emitted[1] = 0
    /\ ret.op = "send" /\ ret.sess = 1 /\ ret.res = "SessionComplete"


\* C19: a session that completes on its own (a Result with num_turns >=
\* max_turns, or a stream error) gets into the completed pool, from which the
\* cleanup task drops it, unless someone calls terminate_session for it.
C19_SelfCompletedRetained ==
    \A s \in OneSession :
        (s \in active /\ is_complete[s] /\ sup[s] = "exited" /\ pc[1] = "idle")
           ~> (s \in DOMAIN completed \/ pc[1] # "idle")


\* C20: shutdown returns Ok, and when it returns no session of its snapshot
\* of the active pool is in the active pool any more.
C20_ShutdownEmptiesSnapshot ==
    [][ret'.op = "shutdown" =>
         /\ ret'.res = "Ok"
         /\ shut_snapshot[ret'.task] \cap active' = {}]_vars

\* C20 witness: shutdown has returned after a snapshot of two sessions, one
\* of which another caller terminated first, so that one terminate_session
\* of the loop failed; both sessions have left the active pool.
C20_Witness ==
    /\ ret.op = "shutdown" /\ ret.res = "Ok" /\ ret.n = 1
    /\ shut_snapshot[1] = {1, 2}
    /\ active = {}


\* C21: once shutdown has returned, the cleanup task wakes up no more and
\* evicts nothing from the completed pool.
C21_ShutdownCancelsGc ==
    [][shut_done => /\ ret'.op # "gc"
                    /\ DOMAIN completed \subseteq DOMAIN completed']_vars


\* C22: a second close returns Ok and changes nothing, and when close returns
\* Ok the child process has exited or has been killed, also when
\* read_messages had started the reader task before.
C22_CloseReapsChild ==
    [][ret'.op = "close" =>
         /\ tr_closes >= 1 =>
               /\ ret'.res = "Ok"
               /\ << tr_process, tr_stdin, tr_reader, tr_ready, proc >>'
                    = << tr_process, tr_stdin, tr_reader, tr_ready, proc >>
         /\ ret'.res = "Ok" => proc' \in {"none", "exited", "killed"}]_vars


\* C23: the child's environment does not depend on the user's values for the
\* denylisted names (LD_PRELOAD, LD_LIBRARY_PATH, any DYLD_* name, PATH,
\* NODE_OPTIONS, PYTHONPATH, PERL5LIB, RUBYLIB): for such a name the child
\* sees the parent's value or none.  Every other user override is applied,
\* and the two identity variables carry the SDK's values.
C23_EnvSanitized ==
    LET denied == DANGEROUS_ENV_VARS \cup {"DYLD_FRAMEWORK_PATH"}
        identity == {"CLAUDE_CODE_ENTRYPOINT", "CLAUDE_AGENT_SDK_VERSION"}
    IN proc # "none" =>
         /\ \A k \in denied :
              /\ k \in DOMAIN child_env <=> k \in DOMAIN parent_env
              /\ k \in DOMAIN child_env => child_env[k] = parent_env[k]
         /\ \A k \in DOMAIN options_env \ (denied \cup identity) :
              /\ k \in DOMAIN child_env
              /\ child_env[k] = options_env[k]
         /\ child_env["CLAUDE_CODE_ENTRYPOINT"] = "sdk-rust"
         /\ child_env["CLAUDE_AGENT_SDK_VERSION"] = "VERSION"


\* C24: every request id is unique within the process: no call of next_id,
\* direct or through one of the create_* functions, on any ProtocolHandler
\* instance, returns an id that an earlier call has returned.
C24_RequestIdsUnique ==
    [][ret'.op = "next_id" => RequestId(ret'.n) \notin issued]_vars

\* C25: a success or error response returns Ok; when a waiter is registered
\* under its id, that waiter and no other receives the response and is
\* removed from the pending map; when none is, the map and every receiver
\* are unchanged.  A receiver that holds a response keeps it (one delivery).
C25_ResponseToWaiter ==
    [][/\ ret'.op = "handle_response" =>
            LET h == ret'.conn
                id == ret'.n
            IN /\ ret'.res = "Ok"
               /\ IF id \in pending_requests[h]
                  THEN /\ pending_requests'[h] = pending_requests[h] \ {id}
                       /\ response_rx[h][id] = "waiting"
                            => response_rx'[h][id] \in {"success", "error"}
                       /\ \A i \in RequestNumbers \ {id} :
                            response_rx'[h][i] = response_rx[h][i]
                  ELSE /\ pending_requests' = pending_requests
                       /\ response_rx' = response_rx
       /\ \A h \in Handlers, i \in RequestNumbers :
            response_rx[h][i] \in {"success", "error"}
                => response_rx'[h][i] = response_rx[h][i]]_vars

\* A response has reached the waiter of its id, which is no longer pending.
C25_Witness ==
    /\ ret.op = "handle_response"
    /\ response_rx[ret.conn][ret.n] \in {"success", "error"}
    /\ ret.n \notin pending_requests[ret.conn]

\* C26: handle_init_response with a protocol_version other than "1.0"
\* returns an error and leaves initialized unchanged; with "1.0" it returns
\* Ok and initialized is true afterwards.
C26_InitVersionChecked ==
    [][\A h \in Handlers, v \in Versions :
         HandleInitResponse(h, v) =>
            IF v = "1.0"
            THEN ret'.res = "Ok" /\ initialized'[h]
            ELSE ret'.res # "Ok" /\ initialized' = initialized]_vars

\* An init response of another version was rejected by a handler that is
\* not initialized.
C26_Witness ==
    /\ ret.op = "handle_init_response"
    /\ ret.res = "Protocol"
    /\ ~initialized[ret.conn]


\* C27: in every reachable state, every session id stored as a value in the
\* connection-handle map is a session of the active or of the completed pool.
C27_RegistryValuesLive ==
    \A k \in Keys :
        agents[k] # NoSession => agents[k] \in active \cup DOMAIN completed


\* C28: the active and the completed pool are disjoint, every session
\* spawned (and not evicted by the cleanup task, which these runs do not
\* have) is in exactly one of them in every reachable state, and get_output
\* and get_session_info of such a session never return SessionNotFound.
C28_ExactlyOnePool ==
    /\ active \cap DOMAIN completed = {}
    /\ \A s \in Spawned : s \in active \cup DOMAIN completed
    /\ ret.op \in {"get_output", "get_session_info"} => ret.res # "SessionNotFound"


\* C29: within the buffer of a session the turn field never decreases from
\* head to tail, whatever frames the child has emitted.
C29_BufferTurnsMonotone ==
    \A s \in SessionIds :
        \A i \in 1..(Len(messages[s]) - 1) :
            messages[s][i].turn <= messages[s][i + 1].turn


\* C30: a hook or permission callback that returns an error does not wedge
\* the protocol: at the failing step no response is queued and the worker is
\* back at its recv; every event queued for a worker is received and its
\* callback invoked, and every event whose callback succeeded is answered.
C30_CallbackErrorSwallowed ==
    /\ [][ret'.res = "Err" =>
            /\ ret'.op = "hook_callback" => hook_worker'[ret'.conn] = "recv"
            /\ ret'.op = "permission_callback" => permission_worker'[ret'.conn] = "recv"
            /\ ret'.op \in {"hook_callback", "permission_callback"}
                    => control_q' = control_q]_vars
    /\ \A id \in RequestNumbers :
          /\ (hook_q[1] # << >> /\ Head(hook_q[1]) = id)
                ~> (hook_worker[1] = "invoke" /\ hook_cur[1] = id)
          /\ (permission_q[1] # << >> /\ Head(permission_q[1]) = id)
                ~> (permission_worker[1] = "invoke" /\ permission_cur[1] = id)
          /\ (hook_worker[1] = "respond" /\ hook_cur[1] = id)
                ~> (ret.op = "hook_response" /\ ret.n = id)
          /\ (permission_worker[1] = "respond" /\ permission_cur[1] = id)
                ~> (ret.op = "permission_response" /\ ret.n = id)

\* A worker answers an event after an earlier callback has failed.
C30_Witness ==
    /\ ret.op \in {"hook_response", "permission_response"}
    /\ cb_errors[ret.conn] > 0


\* C31: no lock is held across an await on a channel: a task that waits for
\* a supervisor's one-shot reply (of send_message or of terminate_session)
\* holds neither the active_sessions mutex nor the registry mutex.
C31_NoLockAcrossAwait ==
    \A t \in Tasks :
        pc[t] \in {"send_wait", "term_wait"} =>
            active_lock # t /\ registry_lock # t


\* C32: the writes to the child of one session are serialized: the writer
\* task and a direct send_message are never both inside write-and-flush;
\* on stdin every part of a frame is next to the other part of the same
\* frame (a first part may be last while its write is under way or has
\* failed); and the frames of the control channel appear in the order in
\* which they were queued (a request is queued in the step that stamps it,
\* so that order is the order of the ids).
C32_WritesSerialized ==
    /\ ~(wr_pc \in {"write", "flush"} /\ snd_pc \in {"write", "flush"})
    /\ \A i \in 1..Len(child_stdin) :
          /\ child_stdin[i].part = "head" /\ i < Len(child_stdin)
                => child_stdin[i + 1] = FrameTail(child_stdin[i].frame)
          /\ child_stdin[i].part = "tail"
                => i > 1 /\ child_stdin[i - 1] = FrameHead(child_stdin[i].frame)
    /\ \A i, j \in 1..Len(child_stdin) :
          /\ i < j
          /\ child_stdin[i].frame.from = "control"
          /\ child_stdin[j].frame.from = "control"
          => child_stdin[i].frame.n <= child_stdin[j].frame.n

\* A user frame and a control frame have both reached stdin whole.
C32_Witness ==
    /\ \E i, j \in 1..Len(child_stdin) :
          /\ child_stdin[i] = FrameTail(UserFrame(1))
          /\ child_stdin[j].part = "tail" /\ child_stdin[j].frame.from = "control"
    /\ ret.op \in {"control_write", "client_send"} /\ ret.res = "Ok"

====
